---- MODULE Spec2Model ----
(***************************************************************************)
(* A model of PararealML: the time discretisation and the solve loops of   *)
(* the operators, the three-point finite difference differentiator with    *)
(* its Jacobi anti-Laplacian, and the Parareal coordinator.                *)
(*                                                                         *)
(* Real numbers are modelled by exact rationals <<numerator, denominator>> *)
(* in lowest terms, so every formula below is about exact arithmetic and   *)
(* not about floating-point round-off.                                     *)
(***************************************************************************)
EXTENDS Integers, Sequences, FiniteSets, TLC

VARIABLES
    op,           \* the operator object: its kind, d_t and batch_mode
    ivp,          \* the initial value problem handed to solve
    s_pc,         \* position inside Operator.solve
    time_points,  \* the array returned by _discretise_time_domain
    s_i,          \* the loop index i of the solve loop
    s_y,          \* the rows of y filled in so far
    y_i,          \* the state carried from one time step to the next
    solution,     \* the Solution returned by solve
    differentiator, \* the NumericalDifferentiator object: its _tol
    nd_args,      \* the mesh, arrays and constraints the caller holds and passes
    nd_call,      \* the differentiator call in progress, with its call-time arguments
    nd_y,         \* the Jacobi estimate y of anti_laplacian
    nd_y_old,     \* the previous Jacobi estimate y_old
    nd_sweeps,    \* the number of Jacobi sweeps done by the running call
    nd_result,    \* the outcome of the last differentiator call
    parareal,     \* the Parareal operator: its f, g, tol and max_iterations
    p_y_0,        \* the initial value y(t0) of the problem Parareal solves
    p_pc,         \* the position of every worker inside Parareal.solve
    p_Y,          \* every worker's end-states Y_0..Y_W of the current iteration
    p_Y_prev,     \* every worker's end-states of the previous iteration
    p_G,          \* every worker's coarse end-states G_1..G_W of the last sweep
    p_sent,       \* the fine end-state each worker contributed to the gather
    p_F,          \* every worker's gathered fine end-states F_1..F_W
    p_n,          \* every worker's count of completed iterations
    p_change,     \* every worker's maximal end-state change of the last sweep
    p_solution,   \* the stitched Solution
    constructor,  \* the constructor or method being called: its class and arguments
    constructed   \* the outcome of the call: the object or value, or an error

vars == <<op, ivp, s_pc, time_points, s_i, s_y, y_i, solution,
          differentiator, nd_args, nd_call, nd_y, nd_y_old, nd_sweeps, nd_result,
          parareal, p_y_0, p_pc, p_Y, p_Y_prev, p_G, p_sent, p_F, p_n, p_change,
          p_solution, constructor, constructed>>

pVars == <<parareal, p_y_0, p_pc, p_Y, p_Y_prev, p_G, p_sent, p_F, p_n, p_change,
           p_solution>>

solveVars == <<op, ivp, s_pc, time_points, s_i, s_y, y_i, solution>>
ndVars == <<differentiator, nd_args, nd_call, nd_y, nd_y_old, nd_sweeps, nd_result>>
cVars == <<constructor, constructed>>

------------------------------------------------------------------------------
(* Exact rational arithmetic.                                              *)

Abs(n) == IF n < 0 THEN -n ELSE n

RECURSIVE Gcd(_, _)
Gcd(a, b) == IF b = 0 THEN a ELSE Gcd(b, a % b)

Rat(n, d) ==
    LET s == IF d < 0 THEN -1 ELSE 1
        g == Gcd(Abs(n), Abs(d))
    IN  <<(s * n) \div g, (s * d) \div g>>

R(n) == <<n, 1>>
Zero == R(0)
(* The operands are reduced before they are multiplied, to keep the         *)
(* intermediate integers small.                                             *)
RAdd(a, b) ==
    LET g == Gcd(a[2], b[2])
    IN  Rat(a[1] * (b[2] \div g) + b[1] * (a[2] \div g), (a[2] \div g) * b[2])
RNeg(a) == <<-a[1], a[2]>>
RSub(a, b) == RAdd(a, RNeg(b))
RMul(a, b) ==
    LET g1 == Gcd(Abs(a[1]), b[2])
        g2 == Gcd(Abs(b[1]), a[2])
    IN  Rat((a[1] \div g1) * (b[1] \div g2), (a[2] \div g2) * (b[2] \div g1))
RDiv(a, b) == RMul(a, Rat(b[2], b[1]))
RLt(a, b) == RSub(a, b)[1] < 0
RLe(a, b) == RSub(a, b)[1] <= 0
RAbs(a) == <<Abs(a[1]), a[2]>>

RECURSIVE RSum(_, _)
RSum(f, S) ==
    IF S = {} THEN Zero
    ELSE LET x == CHOOSE x \in S : TRUE
         IN  RAdd(f[x], RSum(f, S \ {x}))

(* A variant of round() that always rounds down.                            *)
RoundDown(q) == q[1] \div q[2]

(* Python's round(): to the nearest integer, a tie going to the even one.   *)
Round(q) ==
    LET f == q[1] \div q[2]
        r == q[1] % q[2]
    IN  IF 2 * r < q[2] THEN f
        ELSE IF 2 * r > q[2] THEN f + 1
        ELSE IF f % 2 = 0 THEN f ELSE f + 1

------------------------------------------------------------------------------
(* Arrays.  An ndarray of shape mesh_shape + (ydim,) is a record of its     *)
(* mesh shape, its last-axis length and its entries, the entries indexed    *)
(* by the tuples <<i_1, ..., i_rank, c>>, all indices counted from 1.       *)

MaxOf(s) ==
    IF Len(s) = 0 THEN 0
    ELSE CHOOSE m \in {s[k] : k \in 1..Len(s)} : \A k \in 1..Len(s) : s[k] <= m

Vertices(shape) ==
    {v \in [1..Len(shape) -> 1..MaxOf(shape)] : \A a \in 1..Len(shape) : v[a] <= shape[a]}

Idx(shape, ydim) == {Append(v, c) : v \in Vertices(shape), c \in 1..ydim}

Arr(shape, ydim, f) == [shape |-> shape, ydim |-> ydim, at |-> f]

Drop(v, a) == [k \in 1..(Len(v) - 1) |-> IF k < a THEN v[k] ELSE v[k + 1]]

Put(v, a, i) == [v EXCEPT ![a] = i]

(* y[..., c:c + 1]: the one-component slice of an array.                    *)
Component(y, c) ==
    Arr(y.shape, 1, [x \in Idx(y.shape, 1) |-> y.at[Put(x, Len(x), c)]])

ArrAdd(p, q) == Arr(p.shape, p.ydim, [x \in DOMAIN p.at |-> RAdd(p.at[x], q.at[x])])
ArrSub(p, q) == Arr(p.shape, p.ydim, [x \in DOMAIN p.at |-> RSub(p.at[x], q.at[x])])
ArrScale(k, p) == Arr(p.shape, p.ydim, [x \in DOMAIN p.at |-> RMul(k, p.at[x])])

------------------------------------------------------------------------------
(* Constraint: a mask and the values of the masked entries.  An absent     *)
(* constraint (Python's None) is the record NoConstraint, an absent        *)
(* boundary constraint pair the record NoPair.                             *)

NoConstraint == [none |-> TRUE]
NoPair == [none |-> TRUE]
Constraint(mask, values) == [none |-> FALSE, mask |-> mask, values |-> values]
Pair(lower, upper) == [none |-> FALSE, lower |-> lower, upper |-> upper]

(* Constraint.apply(array): array[mask] = values, in place; the value is    *)
(* the content of the array after the call.                                *)
apply(c, array) ==
    [v \in DOMAIN array |-> IF c.mask[v] THEN c.values[v] ELSE array[v]]

(* Constraint.multiply_and_add(addend, multiplier, result):                 *)
(* result[mask] = addend[mask] + multiplier * values, in place.            *)
multiply_and_add(c, addend, multiplier, result) ==
    [v \in DOMAIN result |->
        IF c.mask[v] THEN RAdd(addend[v], RMul(multiplier, c.values[v]))
        ELSE result[v]]

(* apply_constraints_along_last_axis(constraints, array): constraint i is   *)
(* applied to array[..., i:i + 1]; None stands for no constraints at all.   *)
apply_constraints_along_last_axis(constraints, y) ==
    Arr(y.shape, y.ydim,
        [x \in DOMAIN y.at |->
            LET c == x[Len(x)]
                v == Drop(x, Len(x))
            IN  IF constraints.none THEN y.at[x]
                ELSE IF constraints.of[c].none THEN y.at[x]
                ELSE IF constraints.of[c].mask[v] THEN constraints.of[c].values[v]
                ELSE y.at[x]])

NoConstraints == [none |-> TRUE]
Constraints(seq) == [none |-> FALSE, of |-> seq]

------------------------------------------------------------------------------
(* ThreePointCentralDifferenceMethod.  An operation either raises or        *)
(* returns an array.                                                       *)

Raise == [raised |-> TRUE]
Ok(v) == [raised |-> FALSE, value |-> v]

(* The slice of y at index i of axis x_axis, keyed by the index tuple with  *)
(* that axis removed.                                                      *)
Slice(y, x_axis, i) ==
    [x \in Idx(Drop(y.shape, x_axis), y.ydim) |->
        y.at[[k \in 1..(Len(x) + 1) |->
                 IF k < x_axis THEN x[k] ELSE IF k = x_axis THEN i ELSE x[k - 1]]]]

(* A variant of _derivative with a forward difference at interior points.   *)
_derivative_forward(y, d_x, x_axis, derivative_boundary_constraints) ==
    IF y.shape[x_axis] <= 2 THEN Raise
    ELSE IF Len(derivative_boundary_constraints) # y.ydim THEN Raise
    ELSE
      LET n == y.shape[x_axis]
          two_d_x == RMul(R(2), d_x)
          y_diff(x) ==
              IF x[x_axis] = 1
              THEN RDiv(y.at[Put(x, x_axis, 2)], two_d_x)
              ELSE IF x[x_axis] = n
              THEN RDiv(RNeg(y.at[Put(x, x_axis, n - 1)]), two_d_x)
              ELSE RDiv(RSub(y.at[Put(x, x_axis, x[x_axis] + 1)], y.at[x]), d_x)
          constrained(x) ==
              LET constraint_pair == derivative_boundary_constraints[x[Len(x)]]
                  v == Drop(Drop(x, Len(x)), x_axis)
              IN  IF constraint_pair.none THEN y_diff(x)
                  ELSE IF x[x_axis] = 1 /\ ~constraint_pair.lower.none
                  THEN IF constraint_pair.lower.mask[v]
                       THEN constraint_pair.lower.values[v] ELSE y_diff(x)
                  ELSE IF x[x_axis] = n /\ ~constraint_pair.upper.none
                  THEN IF constraint_pair.upper.mask[v]
                       THEN constraint_pair.upper.values[v] ELSE y_diff(x)
                  ELSE y_diff(x)
      IN  Ok(Arr(y.shape, y.ydim, [x \in DOMAIN y.at |-> constrained(x)]))

(* A variant of _derivative that accepts an axis of two vertices.           *)
_derivative_of_two_vertices(y, d_x, x_axis, derivative_boundary_constraints) ==
    IF Len(derivative_boundary_constraints) # y.ydim THEN Raise
    ELSE
      LET n == y.shape[x_axis]
          two_d_x == RMul(R(2), d_x)
          y_diff(x) ==
              IF x[x_axis] = 1
              THEN RDiv(y.at[Put(x, x_axis, 2)], two_d_x)
              ELSE IF x[x_axis] = n
              THEN RDiv(RNeg(y.at[Put(x, x_axis, n - 1)]), two_d_x)
              ELSE RDiv(RSub(y.at[Put(x, x_axis, x[x_axis] + 1)],
                             y.at[Put(x, x_axis, x[x_axis] - 1)]), two_d_x)
      IN  Ok(Arr(y.shape, y.ydim, [x \in DOMAIN y.at |-> y_diff(x)]))

_derivative(y, d_x, x_axis, derivative_boundary_constraints) ==
    IF y.shape[x_axis] <= 2 THEN Raise
    ELSE IF Len(derivative_boundary_constraints) # y.ydim THEN Raise
    ELSE
      LET n == y.shape[x_axis]
          two_d_x == RMul(R(2), d_x)
          y_diff(x) ==
              IF x[x_axis] = 1
              THEN RDiv(y.at[Put(x, x_axis, 2)], two_d_x)
              ELSE IF x[x_axis] = n
              THEN RDiv(RNeg(y.at[Put(x, x_axis, n - 1)]), two_d_x)
              ELSE RDiv(RSub(y.at[Put(x, x_axis, x[x_axis] + 1)],
                             y.at[Put(x, x_axis, x[x_axis] - 1)]), two_d_x)
          constrained(x) ==
              LET constraint_pair == derivative_boundary_constraints[x[Len(x)]]
                  v == Drop(Drop(x, Len(x)), x_axis)
              IN  IF constraint_pair.none THEN y_diff(x)
                  ELSE IF x[x_axis] = 1 /\ ~constraint_pair.lower.none
                  THEN IF constraint_pair.lower.mask[v]
                       THEN constraint_pair.lower.values[v] ELSE y_diff(x)
                  ELSE IF x[x_axis] = n /\ ~constraint_pair.upper.none
                  THEN IF constraint_pair.upper.mask[v]
                       THEN constraint_pair.upper.values[v] ELSE y_diff(x)
                  ELSE y_diff(x)
      IN  Ok(Arr(y.shape, y.ydim, [x \in DOMAIN y.at |-> constrained(x)]))


(* A variant of the halo computation that ignores the derivative boundary  *)
(* constraints: both halos stay zero.                                       *)
_halos_ignoring_constraints(y_lower_boundary_adjacent, y_upper_boundary_adjacent, d_x, derivative_boundary_constraints) ==
    << [x \in DOMAIN y_lower_boundary_adjacent |-> Zero],
       [x \in DOMAIN y_upper_boundary_adjacent |-> Zero] >>

_halos_from_derivative_boundary_constraints(y_lower_boundary_adjacent, y_upper_boundary_adjacent, d_x, derivative_boundary_constraints) ==
    LET sv == {Drop(x, Len(x)) : x \in DOMAIN y_lower_boundary_adjacent}
        comps == {x[Len(x)] : x \in DOMAIN y_lower_boundary_adjacent}
        zeros == [v \in sv |-> Zero]
        adjacent(f, c) == [v \in sv |-> f[Append(v, c)]]
        present(c) ==
            /\ c \in 1..Len(derivative_boundary_constraints)
            /\ ~derivative_boundary_constraints[c].none
        y_lower_halo == [c \in comps |->
            IF present(c) /\ ~derivative_boundary_constraints[c].lower.none
            THEN multiply_and_add(
                     derivative_boundary_constraints[c].lower,
                     adjacent(y_lower_boundary_adjacent, c),
                     RMul(R(-2), d_x),
                     zeros)
            ELSE zeros]
        y_upper_halo == [c \in comps |->
            IF present(c) /\ ~derivative_boundary_constraints[c].upper.none
            THEN multiply_and_add(
                     derivative_boundary_constraints[c].upper,
                     adjacent(y_upper_boundary_adjacent, c),
                     RMul(R(2), d_x),
                     zeros)
            ELSE zeros]
    IN  << [x \in DOMAIN y_lower_boundary_adjacent |->
               y_lower_halo[x[Len(x)]][Drop(x, Len(x))]],
           [x \in DOMAIN y_upper_boundary_adjacent |->
               y_upper_halo[x[Len(x)]][Drop(x, Len(x))]] >>

(* A variant of _second_derivative that uses the lower halo at both         *)
(* boundaries.                                                              *)
_second_derivative_with_one_halo(y, d_x1, d_x2, x_axis1, x_axis2, derivative_boundary_constraints) ==
    IF x_axis1 # x_axis2
    THEN LET first_derivative ==
                 _derivative(y, d_x1, x_axis1, derivative_boundary_constraints)
         IN  IF first_derivative.raised THEN Raise
             ELSE _derivative(first_derivative.value, d_x2, x_axis2,
                              [c \in 1..y.ydim |-> NoPair])
    ELSE IF y.shape[x_axis1] <= 2 THEN Raise
    ELSE
      LET n == y.shape[x_axis1]
          d_x_squared == RMul(d_x1, d_x2)
          halos == _halos_from_derivative_boundary_constraints(
                       Slice(y, x_axis1, 2), Slice(y, x_axis1, n - 1),
                       d_x1, derivative_boundary_constraints)
          y_prev(x) ==
              IF x[x_axis1] = 1 THEN halos[1][Drop(x, x_axis1)]
              ELSE y.at[Put(x, x_axis1, x[x_axis1] - 1)]
          y_next(x) ==
              IF x[x_axis1] = n THEN halos[1][Drop(x, x_axis1)]
              ELSE y.at[Put(x, x_axis1, x[x_axis1] + 1)]
          y_diff(x) ==
              RDiv(RAdd(RSub(y_next(x), RMul(R(2), y.at[x])), y_prev(x)),
                   d_x_squared)
      IN  Ok(Arr(y.shape, y.ydim, [x \in DOMAIN y.at |-> y_diff(x)]))

_second_derivative(y, d_x1, d_x2, x_axis1, x_axis2, derivative_boundary_constraints) ==
    IF x_axis1 # x_axis2
    THEN LET first_derivative ==
                 _derivative(y, d_x1, x_axis1, derivative_boundary_constraints)
         IN  IF first_derivative.raised THEN Raise
             ELSE _derivative(first_derivative.value, d_x2, x_axis2,
                              [c \in 1..y.ydim |-> NoPair])
    ELSE IF y.shape[x_axis1] <= 2 THEN Raise
    ELSE
      LET n == y.shape[x_axis1]
          d_x_squared == RMul(d_x1, d_x2)
          halos == _halos_from_derivative_boundary_constraints(
                       Slice(y, x_axis1, 2), Slice(y, x_axis1, n - 1),
                       d_x1, derivative_boundary_constraints)
          y_prev(x) ==
              IF x[x_axis1] = 1 THEN halos[1][Drop(x, x_axis1)]
              ELSE y.at[Put(x, x_axis1, x[x_axis1] - 1)]
          y_next(x) ==
              IF x[x_axis1] = n THEN halos[2][Drop(x, x_axis1)]
              ELSE y.at[Put(x, x_axis1, x[x_axis1] + 1)]
          y_diff(x) ==
              RDiv(RAdd(RSub(y_next(x), RMul(R(2), y.at[x])), y_prev(x)),
                   d_x_squared)
      IN  Ok(Arr(y.shape, y.ydim, [x \in DOMAIN y.at |-> y_diff(x)]))

------------------------------------------------------------------------------
(* NumericalDifferentiator.  Axes, components and indices are counted from  *)
(* 1 here and from 0 in the source.  A mesh is a record of its              *)
(* vertices_shape, its step sizes d_x, the lower bounds x_min of its axes   *)
(* and its coordinate_system_type.                                          *)

CARTESIAN == "CARTESIAN"
POLAR == "POLAR"

dimensions(mesh) == Len(mesh.vertices_shape)

(* mesh.vertex_coordinate_grids[0] at the vertex of index tuple x.          *)
r_at(mesh, x) == RAdd(mesh.x_min[1], RMul(R(x[1] - 1), mesh.d_x[1]))

ArrDivR(p, mesh) ==
    Arr(p.shape, p.ydim, [x \in DOMAIN p.at |-> RDiv(p.at[x], r_at(mesh, x))])

NoDerivativeConstraints == [none |-> TRUE]
DerivativeConstraints(rows) == [none |-> FALSE, of |-> rows]

_verify_and_get_derivative_boundary_constraints(derivative_boundary_constraints, x_axes, y_elements) ==
    IF derivative_boundary_constraints.none
    THEN Ok([a \in 1..x_axes |-> [c \in 1..y_elements |-> NoPair]])
    ELSE IF \/ Len(derivative_boundary_constraints.of) # x_axes
            \/ \E a \in 1..Len(derivative_boundary_constraints.of) :
                   Len(derivative_boundary_constraints.of[a]) # y_elements
    THEN Raise
    ELSE Ok(derivative_boundary_constraints.of)

gradient(y, mesh, x_axis, derivative_boundary_constraints) ==
    IF y.shape # mesh.vertices_shape THEN Raise
    ELSE IF ~(1 <= x_axis /\ x_axis <= dimensions(mesh)) THEN Raise
    ELSE
      LET dbc == _verify_and_get_derivative_boundary_constraints(
                     derivative_boundary_constraints, dimensions(mesh), y.ydim)
      IN  IF dbc.raised THEN Raise
          ELSE
            LET derivative == _derivative(y, mesh.d_x[x_axis], x_axis, dbc.value[x_axis])
            IN  IF derivative.raised THEN Raise
                ELSE IF mesh.coordinate_system_type = CARTESIAN THEN derivative
                ELSE IF x_axis = 2 THEN Ok(ArrDivR(derivative.value, mesh))
                ELSE derivative

hessian(y, mesh, x_axis1, x_axis2, derivative_boundary_constraints) ==
    IF y.shape # mesh.vertices_shape THEN Raise
    ELSE IF \/ ~(1 <= x_axis1 /\ x_axis1 <= dimensions(mesh))
            \/ ~(1 <= x_axis2 /\ x_axis2 <= dimensions(mesh)) THEN Raise
    ELSE
      LET dbc == _verify_and_get_derivative_boundary_constraints(
                     derivative_boundary_constraints, dimensions(mesh), y.ydim)
      IN  IF dbc.raised THEN Raise
          ELSE
            LET second_derivative ==
                    _second_derivative(y, mesh.d_x[x_axis1], mesh.d_x[x_axis2],
                                       x_axis1, x_axis2, dbc.value[x_axis1])
            IN  IF second_derivative.raised THEN Raise
                ELSE IF mesh.coordinate_system_type = CARTESIAN THEN second_derivative
                ELSE IF (x_axis1 = 1 \/ x_axis1 = 3) \/ (x_axis2 = 1 \/ x_axis2 = 3)
                THEN second_derivative
                ELSE IF x_axis1 = 2 /\ x_axis2 = 2
                THEN LET d_y_over_d_r == _derivative(y, mesh.d_x[1], 1, dbc.value[1])
                     IN  IF d_y_over_d_r.raised THEN Raise
                         ELSE Ok(ArrDivR(ArrAdd(ArrDivR(second_derivative.value, mesh),
                                                d_y_over_d_r.value), mesh))
                ELSE IF (x_axis1 = 2 /\ x_axis2 = 1) \/ (x_axis1 = 1 /\ x_axis2 = 2)
                THEN LET d_y_over_d_theta == _derivative(y, mesh.d_x[2], 2, dbc.value[2])
                     IN  IF d_y_over_d_theta.raised THEN Raise
                         ELSE Ok(ArrDivR(ArrSub(second_derivative.value,
                                                ArrDivR(d_y_over_d_theta.value, mesh)), mesh))
                ELSE Ok(ArrDivR(second_derivative.value, mesh))

(* _derivative(y[..., c:c + 1], d_x[axis], axis, constraints[axis, c:c + 1]) *)
ComponentDerivative(y, mesh, dbc, c, x_axis) ==
    _derivative(Component(y, c), mesh.d_x[x_axis], x_axis, <<dbc[x_axis][c]>>)

divergence(y, mesh, derivative_boundary_constraints) ==
    IF y.shape # mesh.vertices_shape THEN Raise
    ELSE IF y.ydim # dimensions(mesh) THEN Raise
    ELSE
      LET dbc == _verify_and_get_derivative_boundary_constraints(
                     derivative_boundary_constraints, dimensions(mesh), y.ydim)
          d == [c \in 1..y.ydim |-> ComponentDerivative(y, mesh, dbc.value, c, c)]
      IN  IF dbc.raised THEN Raise
          ELSE IF mesh.coordinate_system_type = CARTESIAN
          THEN IF \E c \in 1..y.ydim : d[c].raised THEN Raise
               ELSE Ok(Arr(y.shape, 1,
                       [x \in Idx(y.shape, 1) |->
                           RSum([c \in 1..y.ydim |-> d[c].value.at[x]], 1..y.ydim)]))
          ELSE IF d[1].raised THEN Raise
          ELSE IF d[2].raised THEN Raise
          ELSE Ok(ArrAdd(d[1].value,
                         ArrDivR(ArrAdd(Component(y, 1), d[2].value), mesh)))

curl(y, mesh, curl_ind, derivative_boundary_constraints) ==
    IF y.shape # mesh.vertices_shape THEN Raise
    ELSE IF y.ydim # dimensions(mesh) THEN Raise
    ELSE IF ~(2 <= dimensions(mesh) /\ dimensions(mesh) <= 3) THEN Raise
    ELSE IF dimensions(mesh) = 2 /\ curl_ind # 1 THEN Raise
    ELSE IF ~(1 <= curl_ind /\ curl_ind <= dimensions(mesh)) THEN Raise
    ELSE
      LET dbc == _verify_and_get_derivative_boundary_constraints(
                     derivative_boundary_constraints, dimensions(mesh), y.ydim)
          d(c, a) == ComponentDerivative(y, mesh, dbc.value, c, a)
          minus(p, q) == IF p.raised THEN Raise
                         ELSE IF q.raised THEN Raise
                         ELSE Ok(ArrSub(p.value, q.value))
      IN  IF dbc.raised THEN Raise
          ELSE IF mesh.coordinate_system_type = CARTESIAN
          THEN IF dimensions(mesh) = 2 \/ curl_ind = 3 THEN minus(d(2, 1), d(1, 2))
               ELSE IF curl_ind = 1 THEN minus(d(3, 2), d(2, 3))
               ELSE minus(d(1, 3), d(3, 1))
          ELSE IF d(1, 2).raised THEN Raise
          ELSE IF d(2, 1).raised THEN Raise
          ELSE Ok(ArrAdd(d(2, 1).value,
                         ArrDivR(ArrSub(Component(y, 2), d(1, 2).value), mesh)))

laplacian(y, mesh, derivative_boundary_constraints) ==
    IF y.shape # mesh.vertices_shape THEN Raise
    ELSE
      LET dbc == _verify_and_get_derivative_boundary_constraints(
                     derivative_boundary_constraints, dimensions(mesh), y.ydim)
          d2 == [a \in 1..Len(y.shape) |->
                    _second_derivative(y, mesh.d_x[a], mesh.d_x[a], a, a, dbc.value[a])]
      IN  IF dbc.raised THEN Raise
          ELSE IF mesh.coordinate_system_type = CARTESIAN
          THEN IF \E a \in 1..Len(y.shape) : d2[a].raised THEN Raise
               ELSE Ok(Arr(y.shape, y.ydim,
                       [x \in DOMAIN y.at |->
                           RSum([a \in 1..Len(y.shape) |-> d2[a].value.at[x]],
                                1..Len(y.shape))]))
          ELSE
            LET d_y_over_d_r == _derivative(y, mesh.d_x[1], 1, dbc.value[1])
            IN  IF d_y_over_d_r.raised THEN Raise
                ELSE IF d2[1].raised THEN Raise
                ELSE IF d2[2].raised THEN Raise
                ELSE Ok(ArrAdd(d2[1].value,
                               ArrDivR(ArrAdd(ArrDivR(d2[2].value, mesh),
                                              d_y_over_d_r.value), mesh)))

RECURSIVE RProd(_, _)
RProd(f, S) ==
    IF S = {} THEN R(1)
    ELSE LET x == CHOOSE x \in S : TRUE
         IN  RMul(f[x], RProd(f, S \ {x}))

(* A variant of y_next_or_halo that takes the lower halo at the upper       *)
(* boundary.                                                                *)
y_next_or_lower_halo(y_hat, x, axis, halos) ==
    IF x[axis] = y_hat.shape[axis] THEN halos[1][Drop(x, axis)]
    ELSE y_hat.at[Put(x, axis, x[axis] + 1)]

(* The lower neighbour of entry x of y_hat along an axis: the halo value at *)
(* the lower boundary, y_hat one index down elsewhere.                      *)
y_prev_or_halo(y_hat, x, axis, halos) ==
    IF x[axis] = 1 THEN halos[1][Drop(x, axis)]
    ELSE y_hat.at[Put(x, axis, x[axis] - 1)]

y_next_or_halo(y_hat, x, axis, halos) ==
    IF x[axis] = y_hat.shape[axis] THEN halos[2][Drop(x, axis)]
    ELSE y_hat.at[Put(x, axis, x[axis] + 1)]

_next_anti_laplacian_estimate(y_hat, laplacian_, mesh, derivative_boundary_constraints) ==
    IF \E a \in 1..Len(y_hat.shape) : y_hat.shape[a] <= 2 THEN Raise
    ELSE
      LET axes == 1..Len(mesh.d_x)
          d_x_sqr == [a \in axes |-> RMul(mesh.d_x[a], mesh.d_x[a])]
          halos == [a \in axes |->
                       _halos_from_derivative_boundary_constraints(
                           Slice(y_hat, a, 2), Slice(y_hat, a, y_hat.shape[a] - 1),
                           mesh.d_x[a], derivative_boundary_constraints[a])]
          prev(x, a) == y_prev_or_halo(y_hat, x, a, halos[a])
          next(x, a) == y_next_or_halo(y_hat, x, a, halos[a])
      IN  IF mesh.coordinate_system_type = CARTESIAN
          THEN
            LET step_size_coefficient == [a \in axes |-> RProd(d_x_sqr, axes \ {a})]
                step_size_coefficient_sum == RSum(step_size_coefficient, axes)
                anti_laplacian(x) ==
                    RDiv(RSub(RSum([a \in axes |->
                                       RMul(step_size_coefficient[a],
                                            RAdd(prev(x, a), next(x, a)))], axes),
                              RMul(RProd(d_x_sqr, axes), laplacian_.at[x])),
                         RMul(R(2), step_size_coefficient_sum))
            IN  Ok(Arr(y_hat.shape, y_hat.ydim,
                       [x \in DOMAIN y_hat.at |-> anti_laplacian(x)]))
          ELSE
            LET d_r == mesh.d_x[1]
                r(x) == r_at(mesh, x)
                r_sqr(x) == RMul(r(x), r(x))
                (* the lower boundary divides by r[1, ...], the radius of   *)
                (* the vertex next to the boundary                          *)
                r_first(x) == IF x[1] = 1 THEN r_at(mesh, Put(x, 1, 2)) ELSE r(x)
                r_part(x) ==
                    RAdd(RDiv(RAdd(next(x, 1), prev(x, 1)), d_x_sqr[1]),
                         RDiv(RSub(next(x, 1), prev(x, 1)),
                              RMul(RMul(R(2), d_r), r_first(x))))
                theta_part(x) ==
                    RDiv(RAdd(next(x, 2), prev(x, 2)), RMul(d_x_sqr[2], r_sqr(x)))
                step_size_coefficient(x) ==
                    RAdd(RDiv(R(1), d_x_sqr[1]),
                         RDiv(R(1), RMul(d_x_sqr[2], r_sqr(x))))
                anti_laplacian(x) ==
                    RDiv(RSub(RAdd(r_part(x), theta_part(x)), laplacian_.at[x]),
                         RMul(R(2), step_size_coefficient(x)))
            IN  Ok(Arr(y_hat.shape, y_hat.ydim,
                       [x \in DOMAIN y_hat.at |-> anti_laplacian(x)]))

(* np.linalg.norm(y - y_old) squared.                                       *)
NormSqr(p, q) ==
    RSum([x \in DOMAIN p.at |->
             RMul(RSub(p.at[x], q.at[x]), RSub(p.at[x], q.at[x]))], DOMAIN p.at)

------------------------------------------------------------------------------
(* The inputs of the differentiator calls.                                  *)

MaxN == 4          \* the longest axis of a one dimensional mesh
MaxSweeps == 3     \* Jacobi sweeps explored per anti_laplacian call

Mesh(shape, d_x, x_min, type) ==
    [vertices_shape |-> shape, d_x |-> d_x, x_min |-> x_min,
     coordinate_system_type |-> type]

Meshes ==
    {Mesh(<<n>>, <<R(1)>>, <<R(0)>>, CARTESIAN) : n \in 2..MaxN}
    \cup {Mesh(<<3>>, <<Rat(1, 2)>>, <<R(0)>>, CARTESIAN),
          Mesh(<<3, 3>>, <<R(1), Rat(1, 2)>>, <<R(0), R(0)>>, CARTESIAN),
          Mesh(<<2, 3>>, <<R(1), R(1)>>, <<R(0), R(0)>>, CARTESIAN),
          Mesh(<<3, 3>>, <<R(1), R(1)>>, <<R(1), R(0)>>, POLAR)}

ConstArr(shape, ydim, k) == Arr(shape, ydim, [x \in Idx(shape, ydim) |-> R(k)])

(* Every array over a one dimensional mesh; a polynomial family over a two  *)
(* dimensional mesh.                                                        *)
InputArrays(shape, ydim) ==
    IF Len(shape) = 1
    THEN {Arr(shape, ydim, [x \in Idx(shape, ydim) |-> R(f[x])]) :
              f \in [Idx(shape, ydim) -> 0..1]}
    ELSE {Arr(shape, ydim,
              [x \in Idx(shape, ydim) |->
                  R(p[1] * x[1] + p[2] * x[2] * x[2] + p[3] * x[1] * x[2] * x[Len(x)])]) :
              p \in [1..3 -> 0..1]}

(* A constraint on the whole boundary slice normal to an axis.              *)
WholeSlice(shape, axis, k) ==
    Constraint([v \in Vertices(Drop(shape, axis)) |-> TRUE],
               [v \in Vertices(Drop(shape, axis)) |-> R(k)])

ZeroFlux(shape, ydim) ==
    DerivativeConstraints(
        [a \in 1..Len(shape) |->
            [c \in 1..ydim |-> Pair(WholeSlice(shape, a, 0), WholeSlice(shape, a, 0))]])

LowerUnitFlux(shape, ydim) ==
    DerivativeConstraints(
        [a \in 1..Len(shape) |->
            [c \in 1..ydim |-> Pair(WholeSlice(shape, a, 1), NoConstraint)]])

DerivativeConstraintInputs(shape, ydim) ==
    {NoDerivativeConstraints, ZeroFlux(shape, ydim), LowerUnitFlux(shape, ydim)}

(* Derivative constraints of value 1 whose lower mask is set nowhere and    *)
(* whose upper mask is set on the first vertex of the boundary only.        *)
PartialFlux(shape, ydim) ==
    DerivativeConstraints(
        [a \in 1..Len(shape) |->
            [c \in 1..ydim |->
                Pair(Constraint([v \in Vertices(Drop(shape, a)) |-> FALSE],
                                [v \in Vertices(Drop(shape, a)) |-> R(1)]),
                     Constraint([v \in Vertices(Drop(shape, a)) |->
                                    \A k \in DOMAIN v : v[k] = 1],
                                [v \in Vertices(Drop(shape, a)) |-> R(1)]))]])

OnBoundary(shape, v) == \E a \in 1..Len(shape) : v[a] = 1 \/ v[a] = shape[a]

(* y-constraints fixing every boundary vertex of every component to k.      *)
Dirichlet(shape, ydim, k) ==
    Constraints([c \in 1..ydim |->
        Constraint([v \in Vertices(shape) |-> OnBoundary(shape, v)],
                   [v \in Vertices(shape) |-> R(k)])])

(* The Poisson problems over a two dimensional mesh all have Dirichlet      *)
(* boundaries, as the documentation of anti_laplacian requires.             *)
YConstraintInputs(shape, ydim) ==
    IF Len(shape) = 1 THEN {NoConstraints, Dirichlet(shape, ydim, 2)}
    ELSE {Dirichlet(shape, ydim, 2)}

NoArray == [none |-> TRUE]
SomeArray(a) == [none |-> FALSE, array |-> a]

Tolerances == {R(0), R(1)}

(* The arrays a caller holds: an arbitrary y to differentiate next to a     *)
(* zero right-hand side, or a zero y next to an arbitrary Poisson problem.  *)
DifferentiationInputs ==
    UNION {
      UNION {
        {[mesh |-> mesh, y |-> y, laplacian |-> ConstArr(mesh.vertices_shape, ydim, 0),
          y_init |-> NoArray,
          y_constraints |-> Dirichlet(mesh.vertices_shape, ydim, 2),
          derivative_boundary_constraints |-> dbc] :
            y \in InputArrays(mesh.vertices_shape, ydim),
            dbc \in DerivativeConstraintInputs(mesh.vertices_shape, ydim)
                       \cup {PartialFlux(mesh.vertices_shape, ydim)}}
        : ydim \in 1..Len(mesh.vertices_shape)}
      : mesh \in Meshes}

PoissonInputs ==
    UNION {
      UNION {
        {[mesh |-> mesh, y |-> ConstArr(mesh.vertices_shape, ydim, 0),
          laplacian |-> ConstArr(mesh.vertices_shape, ydim, k),
          y_init |-> y_init, y_constraints |-> yc,
          derivative_boundary_constraints |-> dbc] :
            k \in 0..1,
            yc \in YConstraintInputs(mesh.vertices_shape, ydim),
            dbc \in DerivativeConstraintInputs(mesh.vertices_shape, ydim),
            y_init \in {NoArray} \cup
                {SomeArray(ConstArr(mesh.vertices_shape, ydim, j)) : j \in {0, 2}}}
        : ydim \in 1..Len(mesh.vertices_shape)}
      : mesh \in Meshes}

DifferentiatorInputs == DifferentiationInputs \cup PoissonInputs

(* np.random.random(laplacian.shape): some array of that shape.             *)
RandomArrays(shape, ydim) == {ConstArr(shape, ydim, k) : k \in 0..1}

Axes == 1..2

Idle(args) == [op |-> "none", params |-> <<>>, running |-> FALSE, args |-> args]
Called(name, params, args) ==
    [op |-> name, params |-> params, running |-> FALSE, args |-> args]

(* No call has returned yet.                                                *)
Pending == [raised |-> FALSE, value |-> NoArray]

InitDiff ==
    /\ differentiator \in {[tol |-> tol] : tol \in Tolerances}
    /\ nd_args \in DifferentiatorInputs
    /\ nd_call = Idle(nd_args)
    /\ nd_y = NoArray
    /\ nd_y_old = NoArray
    /\ nd_sweeps = 0
    /\ nd_result = Pending

(* A call that runs to its end in one step and leaves the arrays alone.     *)
Returns(name, params, result) ==
    /\ ~nd_call.running
    /\ nd_call' = Called(name, params, nd_args)
    /\ nd_result' = (IF result.raised THEN Raise ELSE Ok(SomeArray(result.value)))
    /\ UNCHANGED <<differentiator, nd_args, nd_y, nd_y_old, nd_sweeps>>
    /\ UNCHANGED solveVars
    /\ UNCHANGED pVars
    /\ UNCHANGED cVars

CallGradient ==
    \E x_axis \in Axes :
        Returns("gradient", <<x_axis>>,
                gradient(nd_args.y, nd_args.mesh, x_axis,
                         nd_args.derivative_boundary_constraints))

CallHessian ==
    \E x_axis1 \in Axes, x_axis2 \in Axes :
        Returns("hessian", <<x_axis1, x_axis2>>,
                hessian(nd_args.y, nd_args.mesh, x_axis1, x_axis2,
                        nd_args.derivative_boundary_constraints))

CallDivergence ==
    Returns("divergence", <<>>,
            divergence(nd_args.y, nd_args.mesh, nd_args.derivative_boundary_constraints))

CallCurl ==
    \E curl_ind \in Axes :
        Returns("curl", <<curl_ind>>,
                curl(nd_args.y, nd_args.mesh, curl_ind,
                     nd_args.derivative_boundary_constraints))

CallLaplacian ==
    Returns("laplacian", <<>>,
            laplacian(nd_args.y, nd_args.mesh, nd_args.derivative_boundary_constraints))

(* anti_laplacian up to the head of its while loop: the checks, the choice  *)
(* of y, and the y-constraints applied to y in place.  With a y_init given, *)
(* y is the caller's y_init array itself.                                   *)
AntiLaplacianBegin ==
    /\ ~nd_call.running
    /\ LET dbc == _verify_and_get_derivative_boundary_constraints(
                      nd_args.derivative_boundary_constraints,
                      dimensions(nd_args.mesh), nd_args.laplacian.ydim)
           fails ==
               \/ nd_args.laplacian.shape # nd_args.mesh.vertices_shape
               \/ dbc.raised
               \/ /\ ~nd_args.y_init.none
                  /\ \/ nd_args.y_init.array.shape # nd_args.laplacian.shape
                     \/ nd_args.y_init.array.ydim # nd_args.laplacian.ydim
       IN  IF fails
           THEN /\ nd_call' = Called("anti_laplacian", <<>>, nd_args)
                /\ nd_result' = Raise
                /\ UNCHANGED <<nd_args, nd_y, nd_y_old, nd_sweeps>>
           ELSE \E y \in (IF nd_args.y_init.none
                          THEN RandomArrays(nd_args.laplacian.shape, nd_args.laplacian.ydim)
                          ELSE {nd_args.y_init.array}) :
                  LET constrained ==
                          apply_constraints_along_last_axis(nd_args.y_constraints, y)
                  IN  /\ nd_call' = [op |-> "anti_laplacian", params |-> <<>>,
                                     running |-> TRUE, args |-> nd_args]
                      /\ nd_args' = (IF nd_args.y_init.none THEN nd_args
                                     ELSE [nd_args EXCEPT !.y_init = SomeArray(constrained)])
                      /\ nd_y' = SomeArray(constrained)
                      /\ nd_y_old' = NoArray
                      /\ nd_sweeps' = 0
                      /\ nd_result' = Pending
    /\ UNCHANGED differentiator
    /\ UNCHANGED solveVars
    /\ UNCHANGED pVars
    /\ UNCHANGED cVars

(* diff > self._tol, diff being np.inf before the first sweep.              *)
JacobiContinues ==
    IF nd_sweeps = 0 THEN TRUE
    ELSE RLt(RMul(differentiator.tol, differentiator.tol),
             NormSqr(nd_y.array, nd_y_old.array))

(* A variant of the loop body that leaves the new estimate unconstrained.   *)
JacobiSweepWithoutConstraints ==
    /\ nd_call.running
    /\ JacobiContinues
    /\ nd_sweeps < MaxSweeps
    /\ LET dbc == _verify_and_get_derivative_boundary_constraints(
                      nd_args.derivative_boundary_constraints,
                      dimensions(nd_args.mesh), nd_args.laplacian.ydim)
           estimate == _next_anti_laplacian_estimate(
                           nd_y.array, nd_args.laplacian, nd_args.mesh, dbc.value)
       IN  IF estimate.raised
           THEN /\ nd_call' = [nd_call EXCEPT !.running = FALSE]
                /\ nd_result' = Raise
                /\ nd_y' = NoArray
                /\ nd_y_old' = NoArray
                /\ nd_sweeps' = 0
           ELSE /\ nd_y_old' = nd_y
                /\ nd_y' = SomeArray(estimate.value)
                /\ nd_sweeps' = nd_sweeps + 1
                /\ UNCHANGED <<nd_call, nd_result>>
    /\ UNCHANGED <<differentiator, nd_args>>
    /\ UNCHANGED solveVars
    /\ UNCHANGED pVars
    /\ UNCHANGED cVars

(* One pass of the while loop of anti_laplacian.                            *)
JacobiSweep ==
    /\ nd_call.running
    /\ JacobiContinues
    /\ nd_sweeps < MaxSweeps
    /\ LET dbc == _verify_and_get_derivative_boundary_constraints(
                      nd_args.derivative_boundary_constraints,
                      dimensions(nd_args.mesh), nd_args.laplacian.ydim)
           estimate == _next_anti_laplacian_estimate(
                           nd_y.array, nd_args.laplacian, nd_args.mesh, dbc.value)
       IN  IF estimate.raised
           THEN /\ nd_call' = [nd_call EXCEPT !.running = FALSE]
                /\ nd_result' = Raise
                /\ nd_y' = NoArray
                /\ nd_y_old' = NoArray
                /\ nd_sweeps' = 0
           ELSE /\ nd_y_old' = nd_y
                /\ nd_y' = SomeArray(apply_constraints_along_last_axis(
                                         nd_args.y_constraints, estimate.value))
                /\ nd_sweeps' = nd_sweeps + 1
                /\ UNCHANGED <<nd_call, nd_result>>
    /\ UNCHANGED <<differentiator, nd_args>>
    /\ UNCHANGED solveVars
    /\ UNCHANGED pVars
    /\ UNCHANGED cVars

AntiLaplacianReturn ==
    /\ nd_call.running
    /\ ~JacobiContinues
    /\ nd_call' = [nd_call EXCEPT !.running = FALSE]
    /\ nd_result' = Ok(nd_y)
    /\ nd_y' = NoArray
    /\ nd_y_old' = NoArray
    /\ nd_sweeps' = 0
    /\ UNCHANGED <<differentiator, nd_args>>
    /\ UNCHANGED solveVars
    /\ UNCHANGED pVars
    /\ UNCHANGED cVars

NextDiff ==
    \/ CallGradient
    \/ CallHessian
    \/ CallDivergence
    \/ CallCurl
    \/ CallLaplacian
    \/ AntiLaplacianBegin
    \/ JacobiSweep
    \/ AntiLaplacianReturn

(* No Parareal run is in progress.                                          *)
PararealIdle ==
    /\ parareal = [none |-> TRUE]
    /\ p_y_0 = 0
    /\ p_pc = <<>>
    /\ p_Y = <<>>
    /\ p_Y_prev = <<>>
    /\ p_G = <<>>
    /\ p_sent = <<>>
    /\ p_F = <<>>
    /\ p_n = <<>>
    /\ p_change = <<>>
    /\ p_solution = <<>>

(* No constructor is being called.                                          *)
ConstructIdle ==
    /\ constructor = [none |-> TRUE]
    /\ constructed = Pending

(* No solve call is in progress while the differentiator is exercised.      *)
SolveIdle ==
    /\ op = [none |-> TRUE]
    /\ ivp = [none |-> TRUE]
    /\ s_pc = "idle"
    /\ time_points = <<>>
    /\ s_i = 0
    /\ s_y = <<>>
    /\ y_i = NoArray
    /\ solution = [none |-> TRUE]

InitDiffOnly == InitDiff /\ SolveIdle /\ PararealIdle /\ ConstructIdle

SpecDiff == InitDiffOnly /\ [][NextDiff]_vars

------------------------------------------------------------------------------
(* Properties of the differentiator.                                        *)

Returned == nd_call.op # "none" /\ ~nd_call.running

CallShape == nd_call.args.mesh.vertices_shape

(* The axes along which the last call differentiates (meshes of at most two *)
(* dimensions).                                                             *)
DifferentiatedAxes ==
    IF nd_call.op \in {"gradient", "hessian"}
    THEN {nd_call.params[k] : k \in 1..Len(nd_call.params)}
    ELSE 1..Len(CallShape)

ShortAxis(a) == a \in 1..Len(CallShape) /\ CallShape[a] < 3

(* C10: an operation that differentiates along an axis with fewer than 3    *)
(* vertices raises and returns no result (a mixed second derivative: either *)
(* of its two axes; divergence, curl, Laplacian: any mesh axis), and the    *)
(* Jacobi iteration of anti_laplacian completes no sweep and raises when    *)
(* any mesh axis has fewer than 3 vertices.                                 *)
C10_InsufficientStencilRaises ==
    (nd_call.op # "none" /\ \E a \in DifferentiatedAxes : ShortAxis(a)) =>
        IF nd_call.running THEN nd_sweeps = 0 /\ nd_result = Pending
        ELSE nd_result = Raise

(* A mixed second derivative over a mesh of shape (2, 3), taken first along *)
(* the long axis and then along the short one, has raised.                  *)
C10_Witness ==
    /\ Returned
    /\ nd_result = Raise
    /\ nd_call.op = "hessian"
    /\ nd_call.params = <<2, 1>>
    /\ CallShape = <<2, 3>>

(* The sum of the entries of component c of an array.                       *)
PlainSum(p, c) == RSum([v \in Vertices(p.shape) |-> p.at[Append(v, c)]], Vertices(p.shape))

(* The trapezoid weight of a vertex: a half for every axis on whose         *)
(* boundary the vertex lies.                                                *)
TrapezoidWeight(shape, v) ==
    RProd([a \in 1..Len(shape) |->
              IF v[a] = 1 \/ v[a] = shape[a] THEN Rat(1, 2) ELSE R(1)], 1..Len(shape))

WeightedSum(p, c) ==
    RSum([v \in Vertices(p.shape) |->
             RMul(TrapezoidWeight(p.shape, v), p.at[Append(v, c)])], Vertices(p.shape))

ZeroFluxLaplacianReturned ==
    /\ Returned
    /\ nd_call.op = "laplacian"
    /\ ~nd_result.raised
    /\ nd_call.args.mesh.coordinate_system_type = CARTESIAN
    /\ nd_call.args.derivative_boundary_constraints =
           ZeroFlux(CallShape, nd_call.args.y.ydim)

(* C8 as stated: with zero derivative constraints on every boundary face    *)
(* the discrete Laplacian sums to zero over the mesh for every y.           *)
C8_LaplacianSumsToZero ==
    ZeroFluxLaplacianReturned =>
        \A c \in 1..nd_call.args.y.ydim : PlainSum(nd_result.value.array, c) = Zero

(* C8, amended: with zero derivative constraints on every boundary face of  *)
(* a Cartesian mesh the trapezoid-weighted sum of the discrete Laplacian    *)
(* (boundary vertices weighted a half per boundary axis) is zero for every  *)
(* y, so that this weighted sum of y is what diffusion conserves.           *)
C8_LaplacianWeightedSumIsZero ==
    ZeroFluxLaplacianReturned =>
        \A c \in 1..nd_call.args.y.ydim : WeightedSum(nd_result.value.array, c) = Zero

(* A zero-flux Laplacian of a y that is not constant has been computed over *)
(* a two dimensional mesh, and its plain sum is not zero.                   *)
C8_Witness ==
    /\ ZeroFluxLaplacianReturned
    /\ Len(CallShape) = 2
    /\ PlainSum(nd_result.value.array, 1) # Zero

(* C9 as stated: when a differentiator operation has returned or raised, y, *)
(* the Laplacian right-hand side and a caller-supplied y_init hold the      *)
(* values they held at the call.                                            *)
C9_ArgumentsUnchanged ==
    Returned =>
        /\ nd_args.y = nd_call.args.y
        /\ nd_args.laplacian = nd_call.args.laplacian
        /\ nd_args.y_init = nd_call.args.y_init

------------------------------------------------------------------------------
(* Operator: the time discretisation shared by every operator.              *)

(* np.linspace(start, stop, num) for num >= 1.                              *)
Linspace(start, stop, num) ==
    IF num = 1 THEN <<start>>
    ELSE LET step == RDiv(RSub(stop, start), R(num - 1))
         IN  [k \in 1..num |-> IF k = num THEN stop
                               ELSE RAdd(start, RMul(R(k - 1), step))]


(* A variant of the discretisation that rounds the step count up.           *)
_discretise_time_domain_rounding_up(t, d_t) ==
    LET t_0 == t[1]
        q == RDiv(RSub(t[2], t_0), d_t)
        steps == IF q[1] % q[2] = 0 THEN q[1] \div q[2] ELSE (q[1] \div q[2]) + 1
        t_1 == RAdd(t_0, RMul(R(steps), d_t))
    IN  Linspace(t_0, t_1, steps + 1)

_discretise_time_domain(t, d_t) ==
    LET t_0 == t[1]
        steps == Round(RDiv(RSub(t[2], t_0), d_t))
        t_1 == RAdd(t_0, RMul(R(steps), d_t))
    IN  Linspace(t_0, t_1, steps + 1)

(* time_points[1:]                                                          *)
Rest(seq) == [k \in 1..(Len(seq) - 1) |-> seq[k + 1]]

------------------------------------------------------------------------------
(* The problems and operators handed to solve.                              *)

MaxSpan == 5       \* the interval lengths are the halves 0/2 .. MaxSpan/2

ODE == "ODEOperator"
FVM == "FVMOperator"
FDM == "FDMOperator"
StatelessML == "StatelessMLOperator"
StatefulML == "StatefulMLOperator"

TemporalStepSizes == {Rat(1, 2), Rat(3, 4), R(1)}

Operators ==
    {[kind |-> kind, d_t |-> d_t, batch_mode |-> FALSE, model |-> TRUE] :
        kind \in {ODE, FVM, FDM, StatefulML}, d_t \in TemporalStepSizes}
    \cup {[kind |-> StatelessML, d_t |-> d_t, batch_mode |-> b, model |-> TRUE] :
             d_t \in TemporalStepSizes, b \in BOOLEAN}
    \cup {[kind |-> kind, d_t |-> R(1), batch_mode |-> FALSE, model |-> FALSE] :
             kind \in {StatelessML, StatefulML}}

TemporalDomainIntervals ==
    {<<R(t_0), RAdd(R(t_0), Rat(k, 2))>> : t_0 \in 0..1, k \in 0..MaxSpan}

(* The mesh of the partial differential equations of the model.             *)
SolveMesh == Mesh(<<3>>, <<R(1)>>, <<R(0)>>, CARTESIAN)

(* The Dirichlet value a + b * t prescribed at time t on the upper boundary *)
(* of the mesh.                                                             *)
boundary_value(bc, t) == RAdd(R(bc.a), RMul(R(bc.b), t))

(* A constrained problem is an ordinary differential equation (x_dimension  *)
(* 0, the population growth equation) or the diffusion equation over        *)
(* SolveMesh with a zero-flux lower boundary and the Dirichlet upper        *)
(* boundary value a + b * t; constraint_t is the time at which the problem  *)
(* evaluated its boundary conditions to build its constraints.              *)
ConstrainedProblems ==
    {[x_dimension |-> 0, bc |-> [a |-> 0, b |-> 0], constraint_t |-> R(0)]}
    \cup {[x_dimension |-> 1, bc |-> [a |-> a, b |-> b], constraint_t |-> R(c)] :
             a \in 0..1, b \in 0..1, c \in 0..1}

y_vertices_shape(cp) == IF cp.x_dimension = 0 THEN <<>> ELSE SolveMesh.vertices_shape

(* initial_condition.discrete_y_0: ones for an ODE, a step for a PDE.       *)
discrete_y_0(cp) ==
    Arr(y_vertices_shape(cp), 1,
        [x \in Idx(y_vertices_shape(cp), 1) |-> IF x[1] = 1 THEN R(1) ELSE R(0)])

InitialValueProblems ==
    {[constrained_problem |-> cp, t_interval |-> t] :
        cp \in ConstrainedProblems, t \in TemporalDomainIntervals}

(* ConstrainedProblem.y_vertex_constraints: one Constraint per component of *)
(* y, fixing the upper boundary vertex to the Dirichlet value the problem   *)
(* evaluated at constraint_t; None for an ordinary differential equation.   *)
y_vertex_constraints(cp) ==
    IF cp.x_dimension = 0 THEN NoConstraints
    ELSE Constraints(
             <<Constraint(
                 [v \in Vertices(SolveMesh.vertices_shape) |->
                     v[1] = SolveMesh.vertices_shape[1]],
                 [v \in Vertices(SolveMesh.vertices_shape) |->
                     boundary_value(cp.bc, cp.constraint_t)])>>)

(* ConstrainedProblem.d_y_boundary_vertex_constraints: zero flux through    *)
(* the lower boundary, nothing on the upper one.                            *)
d_y_boundary_vertex_constraints(cp) ==
    DerivativeConstraints(
        <<<<Pair(WholeSlice(SolveMesh.vertices_shape, 1, 0), NoConstraint)>>>>)

(* The closure d_y_over_d_t of FDMOperator.solve: y for the population      *)
(* growth equation, the Laplacian of y for the diffusion equation.          *)
d_y_over_d_t(cp, t, y) ==
    IF cp.x_dimension = 0 THEN Ok(y)
    ELSE laplacian(y, SolveMesh, d_y_boundary_vertex_constraints(cp))

(* ForwardEulerMethod.integral: y + d_t * f(t, y), with the y-constraints   *)
(* applied to the result.                                                   *)
ForwardEulerStep(y, d_t, f, y_constraints) ==
    IF f.raised THEN Raise
    ELSE Ok(apply_constraints_along_last_axis(
                y_constraints, ArrAdd(y, ArrScale(d_t, f.value))))

integral(y, t, d_t, cp, y_constraints) ==
    ForwardEulerStep(y, d_t, d_y_over_d_t(cp, t, y), y_constraints)

(* A row of y computed outside the model (SciPy, FiPy, a regression model)  *)
(* for the time t.                                                          *)
ExternalRow(t) == [external |-> TRUE, t |-> t]

InitSolve ==
    /\ op \in Operators
    /\ ivp \in InitialValueProblems
    /\ s_pc = "idle"
    /\ time_points = <<>>
    /\ s_i = 0
    /\ s_y = <<>>
    /\ y_i = NoArray
    /\ solution = [none |-> TRUE]

(* solve up to its loop: the checks and the time discretisation.            *)
SolveBegin ==
    /\ s_pc = "idle"
    /\ LET diff_eq == ivp.constrained_problem
           fails ==
               \/ op.kind = ODE /\ diff_eq.x_dimension # 0
               \/ op.kind = FVM /\ diff_eq.x_dimension <= 0
               \/ op.kind \in {StatelessML, StatefulML} /\ ~op.model
           discretised == _discretise_time_domain(ivp.t_interval, op.d_t)
       IN  IF fails
           THEN /\ s_pc' = "raised"
                /\ UNCHANGED <<time_points, s_i, s_y, y_i>>
           ELSE /\ time_points' =
                       (IF op.kind = StatelessML THEN Rest(discretised) ELSE discretised)
                /\ s_i' = 0
                /\ s_y' = <<>>
                /\ y_i' = (IF op.kind \in {FDM, StatefulML}
                           THEN SomeArray(discrete_y_0(ivp.constrained_problem))
                           ELSE NoArray)
                /\ s_pc' = (IF op.kind = ODE \/ (op.kind = StatelessML /\ op.batch_mode)
                            THEN "call" ELSE "loop")
    /\ UNCHANGED <<op, ivp, solution>>
    /\ UNCHANGED ndVars
    /\ UNCHANGED pVars
    /\ UNCHANGED cVars

(* The number of passes of the loop of solve.                               *)
LoopLength ==
    IF op.kind = StatelessML THEN Len(time_points) ELSE Len(time_points) - 1

(* The single call of ODEOperator to solve_ivp with t_eval =                *)
(* time_points[1:], which may report failure, and the single batched        *)
(* prediction of a stateless operator.                                      *)
SolveCall ==
    /\ s_pc = "call"
    /\ \/ /\ s_y' = (IF op.kind = ODE
                     THEN [k \in 1..(Len(time_points) - 1) |->
                              ExternalRow(Rest(time_points)[k])]
                     ELSE [k \in 1..Len(time_points) |-> ExternalRow(time_points[k])])
          /\ s_pc' = "called"
       \/ /\ op.kind = ODE
          /\ s_pc' = "raised"
          /\ UNCHANGED s_y
    /\ UNCHANGED <<op, ivp, time_points, s_i, y_i, solution>>
    /\ UNCHANGED ndVars
    /\ UNCHANGED pVars
    /\ UNCHANGED cVars

(* One pass of the loop over the time points.                               *)
SolveStep ==
    /\ s_pc = "loop"
    /\ s_i < LoopLength
    /\ LET t_i == time_points[s_i + 1]
       IN  IF op.kind = FDM
           THEN \E next \in {integral(y_i.array, t_i, op.d_t, ivp.constrained_problem,
                                      y_vertex_constraints(ivp.constrained_problem))} :
                    IF next.raised
                    THEN s_pc' = "raised" /\ UNCHANGED <<s_i, s_y, y_i>>
                    ELSE /\ y_i' = SomeArray(next.value)
                         /\ s_y' = Append(s_y, next.value)
                         /\ s_i' = s_i + 1
                         /\ UNCHANGED s_pc
           ELSE /\ s_y' = Append(s_y, ExternalRow(t_i))
                /\ y_i' = (IF op.kind = StatefulML THEN ExternalRow(t_i) ELSE y_i)
                /\ s_i' = s_i + 1
                /\ UNCHANGED s_pc
    /\ UNCHANGED <<op, ivp, time_points, solution>>
    /\ UNCHANGED ndVars
    /\ UNCHANGED pVars
    /\ UNCHANGED cVars

SolveReturn ==
    /\ \/ s_pc = "called"
       \/ s_pc = "loop" /\ s_i = LoopLength
    /\ solution' = [t_coordinates |->
                        (IF op.kind = StatelessML THEN time_points ELSE Rest(time_points)),
                    discrete_y |-> s_y,
                    d_t |-> op.d_t]
    /\ s_pc' = "done"
    /\ UNCHANGED <<op, ivp, time_points, s_i, s_y, y_i>>
    /\ UNCHANGED ndVars
    /\ UNCHANGED pVars
    /\ UNCHANGED cVars

NextSolve ==
    \/ SolveBegin
    \/ SolveCall
    \/ SolveStep
    \/ SolveReturn

(* No differentiator call is made from outside while solve runs.            *)
DiffIdle ==
    /\ differentiator = [tol |-> R(0)]
    /\ nd_args = NoArray
    /\ nd_call = [op |-> "none"]
    /\ nd_y = NoArray
    /\ nd_y_old = NoArray
    /\ nd_sweeps = 0
    /\ nd_result = Pending

InitSolveOnly == InitSolve /\ DiffIdle /\ PararealIdle /\ ConstructIdle

SpecSolve == InitSolveOnly /\ [][NextSolve]_vars

------------------------------------------------------------------------------
(* Properties of solve.                                                     *)

Solved == s_pc = "done"

T0 == ivp.t_interval[1]
T1 == ivp.t_interval[2]

(* (t1 - t0) / d_t                                                          *)
StepRatio == RDiv(RSub(T1, T0), op.d_t)

(* n is q rounded to the nearest integer, a tie going to the even one.      *)
IsRounded(n, q) ==
    LET distance == RAbs(RSub(q, R(n)))
    IN  /\ RLe(distance, Rat(1, 2))
        /\ distance = Rat(1, 2) => n % 2 = 0

CoordinateCount == Len(solution.t_coordinates)

(* C1: for every operator variant, a Solution returned by solve has the     *)
(* time coordinates t0 + k * d_t for k = 1..N with N = round((t1 - t0) /    *)
(* d_t): t0 is not among them, the first is greater than t0 and the last is *)
(* t0 + N * d_t.                                                            *)
C1_TimeCoordinates ==
    Solved =>
        /\ IsRounded(CoordinateCount, StepRatio)
        /\ \A k \in 1..CoordinateCount :
               /\ solution.t_coordinates[k] = RAdd(T0, RMul(R(k), op.d_t))
               /\ RLt(T0, solution.t_coordinates[k])

(* A batched stateless operator has returned the two coordinates of an      *)
(* interval of two and a half steps, the tie having been rounded to the     *)
(* even step count.                                                         *)
C1_Witness ==
    /\ Solved
    /\ op.kind = StatelessML
    /\ op.batch_mode
    /\ StepRatio = Rat(5, 2)
    /\ CoordinateCount = 2

StrictlyIncreasing(t) == \A k \in 1..(Len(t) - 1) : RLt(t[k], t[k + 1])

(* C2 as stated: the time coordinates of a returned Solution are strictly   *)
(* increasing, the last one is at most t_interval[1], and discrete_y has    *)
(* one row per time coordinate.                                             *)
C2_LastCoordinateWithinInterval ==
    Solved =>
        /\ StrictlyIncreasing(solution.t_coordinates)
        /\ CoordinateCount > 0 => RLe(solution.t_coordinates[CoordinateCount], T1)
        /\ Len(solution.discrete_y) = CoordinateCount

(* C2, amended: the time coordinates of a returned Solution are strictly    *)
(* increasing, discrete_y has one row per time coordinate, and the last     *)
(* coordinate is the end time snapped to the step grid, t0 + N * d_t, which *)
(* lies within d_t / 2 of t_interval[1] on either side of it; there is no   *)
(* coordinate at all when the interval is at most half a step long.         *)
C2_LastCoordinateSnapped ==
    Solved =>
        /\ StrictlyIncreasing(solution.t_coordinates)
        /\ Len(solution.discrete_y) = CoordinateCount
        /\ CoordinateCount > 0 =>
               /\ solution.t_coordinates[CoordinateCount] =
                      RAdd(T0, RMul(R(CoordinateCount), op.d_t))
               /\ RLe(RAbs(RSub(solution.t_coordinates[CoordinateCount], T1)),
                      RMul(Rat(1, 2), op.d_t))
        /\ CoordinateCount = 0 => RLe(RSub(T1, T0), RMul(Rat(1, 2), op.d_t))

(* The finite difference operator has returned a Solution of several rows   *)
(* whose last time coordinate lies beyond the end of the interval.          *)
C2_Witness ==
    /\ Solved
    /\ op.kind = FDM
    /\ CoordinateCount > 1
    /\ Len(solution.discrete_y) = CoordinateCount
    /\ RLt(T1, solution.t_coordinates[CoordinateCount])

UpperBoundaryEntry == <<SolveMesh.vertices_shape[1], 1>>

(* C7 as stated: every stored time step of a Solution the finite difference *)
(* operator returns for a problem with a Dirichlet boundary condition,      *)
(* static or time-dependent, holds at the constrained boundary entry the    *)
(* value prescribed for that step's time.                                   *)
C7_DirichletValuesAtEveryStep ==
    (Solved /\ op.kind = FDM /\ ivp.constrained_problem.x_dimension = 1) =>
        \A k \in 1..CoordinateCount :
            solution.discrete_y[k].at[UpperBoundaryEntry] =
                boundary_value(ivp.constrained_problem.bc, solution.t_coordinates[k])

------------------------------------------------------------------------------
(* Parareal.  The fine and the coarse operator are deterministic maps of    *)
(* a state, here an integer; the fine operator takes two steps over a       *)
(* sub-interval and the coarse operator one.                                *)

Workers == 3          \* the number W of workers and of sub-intervals
MaxIterations == 3    \* the largest max_iterations

MaxState == 4         \* the operators map into the states 0..MaxState

fine_step(f, y) ==
    IF f = "square" THEN (y * y + 1) % (MaxState + 1) ELSE (2 * y + 1) % (MaxState + 1)

(* F.solve over one sub-interval from the state y: the fine trajectory.     *)
F_solve(f, y) == <<fine_step(f, y), fine_step(f, fine_step(f, y))>>

(* The end-state of a trajectory.                                           *)
End(trajectory) == trajectory[Len(trajectory)]

(* G.solve over one sub-interval from the state y: the coarse end-state.    *)
G_solve(g, y) == IF g = "identity" THEN y ELSE (y + 1) % (MaxState + 1)

(* A variant of the update rule without the fine correction.                *)
update_without_correction(g_new, f_old, g_old) == g_new

(* The update rule: Y_k^(n+1) = G_k^(n+1) + F_k^n - G_k^n.                  *)
update(g_new, f_old, g_old) == g_new + f_old - g_old

(* The initial, purely serial coarse sweep: Y_0 = y_0, Y_k = G(Y_(k-1)).    *)
(* The end-state Y_k is entry k + 1 of the sequence.                        *)
RECURSIVE initial_sweep(_, _, _)
initial_sweep(g, y_0, k) ==
    IF k = 0 THEN <<y_0>>
    ELSE LET Y == initial_sweep(g, y_0, k - 1)
         IN  Append(Y, G_solve(g, Y[k]))

(* A variant of the coarse sweep that propagates the end-states of the      *)
(* previous iteration instead of the ones it has just computed.             *)
RECURSIVE coarse_sweep_from_previous(_, _, _, _, _, _)
coarse_sweep_from_previous(g, y_0, Y_old, F, G_old, k) ==
    IF k = 0 THEN [Y |-> <<y_0>>, G |-> <<>>]
    ELSE LET before == coarse_sweep_from_previous(g, y_0, Y_old, F, G_old, k - 1)
             g_new == G_solve(g, Y_old[k])
         IN  [Y |-> Append(before.Y, update(g_new, F[k], G_old[k])),
              G |-> Append(before.G, g_new)]

(* The serial coarse sweep of an iteration over the sub-intervals 1..k,     *)
(* from the gathered fine end-states F and the coarse end-states G_old of   *)
(* the previous sweep.                                                      *)
RECURSIVE coarse_sweep(_, _, _, _, _, _)
coarse_sweep(g, y_0, Y_old, F, G_old, k) ==
    IF k = 0 THEN [Y |-> <<y_0>>, G |-> <<>>]
    ELSE LET before == coarse_sweep(g, y_0, Y_old, F, G_old, k - 1)
             g_new == G_solve(g, before.Y[k])
         IN  [Y |-> Append(before.Y, update(g_new, F[k], G_old[k])),
              G |-> Append(before.G, g_new)]

(* The maximum over the sub-intervals of the absolute end-state change.     *)
max_change(Y_new, Y_old) ==
    LET changes == {Abs(Y_new[k] - Y_old[k]) : k \in 1..Len(Y_new)}
    IN  CHOOSE m \in changes : \A c \in changes : c <= m

(* A variant of the stopping rule that ignores the tolerance.               *)
stops_on_count_only(change, tol, n, max_iterations) == n >= max_iterations

(* The stopping rule after n iterations.                                    *)
stops(change, tol, n, max_iterations) == change < tol \/ n >= max_iterations

(* A variant of the gather in which a worker receives its own contribution  *)
(* only.                                                                    *)
gathered_own_only(w, sent) == [k \in 1..Workers |-> IF k = w THEN sent[k] ELSE 0]

(* The collective gather: every worker receives every contribution.         *)
gathered(w, sent) == [k \in 1..Workers |-> sent[k]]

Ranks == 1..Workers

PararealOperators ==
    {[f |-> f, g |-> g, tol |-> tol, max_iterations |-> m] :
        f \in {"square", "affine"}, g \in {"identity", "shift"},
        tol \in {0, 1, 2 * MaxState + 2}, m \in 1..MaxIterations}

InitParareal ==
    /\ parareal \in PararealOperators
    /\ p_y_0 \in 0..2
    /\ p_pc = [w \in Ranks |-> "start"]
    /\ p_Y = [w \in Ranks |-> <<>>]
    /\ p_Y_prev = [w \in Ranks |-> <<>>]
    /\ p_G = [w \in Ranks |-> <<>>]
    /\ p_sent = [w \in Ranks |-> 0]
    /\ p_F = [w \in Ranks |-> <<>>]
    /\ p_n = [w \in Ranks |-> 0]
    /\ p_change = [w \in Ranks |-> 0]
    /\ p_solution = <<>>

(* Iteration 0 on worker w: the serial coarse sweep from y_0.               *)
InitialSweep(w) ==
    /\ p_pc[w] = "start"
    /\ LET Y == initial_sweep(parareal.g, p_y_0, Workers)
       IN  /\ p_Y' = [p_Y EXCEPT ![w] = Y]
           /\ p_G' = [p_G EXCEPT ![w] = Rest(Y)]
    /\ p_pc' = [p_pc EXCEPT ![w] = "fine"]
    /\ UNCHANGED <<parareal, p_y_0, p_Y_prev, p_sent, p_F, p_n, p_change, p_solution>>
    /\ UNCHANGED <<solveVars, ndVars, cVars>>

(* Step 1 of an iteration on worker w: the fine solve over its own          *)
(* sub-interval from Y_(w-1), contributed to the gather.                    *)
FineSolve(w) ==
    /\ p_pc[w] = "fine"
    /\ p_sent' = [p_sent EXCEPT ![w] = End(F_solve(parareal.f, p_Y[w][w]))]
    /\ p_pc' = [p_pc EXCEPT ![w] = "gather"]
    /\ UNCHANGED <<parareal, p_y_0, p_Y, p_Y_prev, p_G, p_F, p_n, p_change, p_solution>>
    /\ UNCHANGED <<solveVars, ndVars, cVars>>

(* Step 2: the collective gather completes once every worker has            *)
(* contributed.                                                             *)
Gather ==
    /\ \A w \in Ranks : p_pc[w] = "gather"
    /\ p_F' = [w \in Ranks |-> gathered(w, p_sent)]
    /\ p_pc' = [w \in Ranks |-> "sweep"]
    /\ UNCHANGED <<parareal, p_y_0, p_Y, p_Y_prev, p_G, p_sent, p_n, p_change, p_solution>>
    /\ UNCHANGED <<solveVars, ndVars, cVars>>

(* Step 3 on worker w: the serial coarse sweep with the update rule, and    *)
(* the convergence test.                                                    *)
CoarseSweep(w) ==
    /\ p_pc[w] = "sweep"
    /\ \E swept \in {coarse_sweep(parareal.g, p_y_0, p_Y[w], p_F[w], p_G[w], Workers)} :
         \E change \in {max_change(swept.Y, p_Y[w])} :
           /\ p_Y_prev' = [p_Y_prev EXCEPT ![w] = p_Y[w]]
           /\ p_Y' = [p_Y EXCEPT ![w] = swept.Y]
           /\ p_G' = [p_G EXCEPT ![w] = swept.G]
           /\ p_change' = [p_change EXCEPT ![w] = change]
           /\ p_n' = [p_n EXCEPT ![w] = p_n[w] + 1]
           /\ p_pc' = [p_pc EXCEPT ![w] =
                          IF stops(change, parareal.tol, p_n[w] + 1, parareal.max_iterations)
                          THEN "stopped" ELSE "fine"]
    /\ UNCHANGED <<parareal, p_y_0, p_sent, p_F, p_solution>>
    /\ UNCHANGED <<solveVars, ndVars, cVars>>

RECURSIVE Concat(_, _)
Concat(trajectories, k) ==
    IF k = 0 THEN <<>> ELSE Concat(trajectories, k - 1) \o trajectories[k]

(* The output: every worker's fine trajectory over its sub-interval from    *)
(* its converged Y_(w-1), stitched in the order of the sub-intervals.       *)
Stitch ==
    /\ \A w \in Ranks : p_pc[w] = "stopped"
    /\ p_solution' = Concat([w \in Ranks |-> F_solve(parareal.f, p_Y[w][w])], Workers)
    /\ p_pc' = [w \in Ranks |-> "done"]
    /\ UNCHANGED <<parareal, p_y_0, p_Y, p_Y_prev, p_G, p_sent, p_F, p_n, p_change>>
    /\ UNCHANGED <<solveVars, ndVars, cVars>>

NextParareal ==
    \/ \E w \in Ranks : InitialSweep(w)
    \/ \E w \in Ranks : FineSolve(w)
    \/ Gather
    \/ \E w \in Ranks : CoarseSweep(w)
    \/ Stitch

InitPararealOnly == InitParareal /\ SolveIdle /\ DiffIdle /\ ConstructIdle

SpecParareal == InitPararealOnly /\ [][NextParareal]_vars

(* The workers are processes that run whenever they can, and the            *)
(* collective completes once every worker has joined it.                    *)
SpecPararealFair == SpecParareal /\ WF_vars(NextParareal)

------------------------------------------------------------------------------
(* Properties of Parareal.                                                  *)

Stopped(w) == p_pc[w] \in {"stopped", "done"}
AllDone == \A w \in Ranks : p_pc[w] = "done"

(* The end-state F(y) and the coarse end-state G(y).                        *)
F(y) == End(F_solve(parareal.f, y))
G(y) == G_solve(parareal.g, y)

(* C3: in every iteration and for every sub-interval k >= 1 the new         *)
(* end-state is Y_k^(n+1) = G(Y_(k-1)^(n+1)) + F(Y_(k-1)^n) - G(Y_(k-1)^n), *)
(* the coarse operator being applied to the end-state just computed for     *)
(* sub-interval k - 1, and Y_0 is y(t0) in every iteration.                 *)
C3_UpdateRule ==
    \A w \in Ranks :
        /\ p_pc[w] # "start" => p_Y[w][1] = p_y_0
        /\ p_n[w] >= 1 =>
               \A k \in 1..Workers :
                   p_Y[w][k + 1] =
                       G(p_Y[w][k]) + F(p_Y_prev[w][k]) - G(p_Y_prev[w][k])

(* A worker has completed its second iteration, in which the end-states     *)
(* changed and the correction made Y_2 differ from the coarse G(Y_1).       *)
C3_Witness ==
    \E w \in Ranks :
        /\ p_n[w] = 2
        /\ p_Y[w] # p_Y_prev[w]
        /\ p_Y[w][3] # G(p_Y[w][2])

(* C4: Parareal.solve terminates; no worker runs more than max_iterations   *)
(* iterations, and a worker whose last iteration changed every end-state by *)
(* less than tol has stopped, so that no iteration follows the first one    *)
(* below the tolerance.                                                     *)
C4_Terminates ==
    /\ [](\A w \in Ranks :
              /\ p_n[w] <= parareal.max_iterations
              /\ (p_n[w] >= 1 /\ p_change[w] < parareal.tol) => Stopped(w))
    /\ <>AllDone

(* A run has ended after two of three allowed iterations because the        *)
(* second one changed the end-states by less than tol.                      *)
C4_Witness ==
    /\ AllDone
    /\ parareal.max_iterations = 3
    /\ \A w \in Ranks : p_n[w] = 2 /\ p_change[w] < parareal.tol

(* The serial fine operator over the first k sub-intervals: its end-state   *)
(* and its trajectory.                                                      *)
RECURSIVE SerialEnd(_)
SerialEnd(k) == IF k = 0 THEN p_y_0 ELSE F(SerialEnd(k - 1))

RECURSIVE SerialTrajectory(_)
SerialTrajectory(k) ==
    IF k = 0 THEN <<>>
    ELSE SerialTrajectory(k - 1) \o F_solve(parareal.f, SerialEnd(k - 1))

Min(a, b) == IF a < b THEN a ELSE b

(* C5 as stated: with max_iterations = W and any tol, the returned Solution *)
(* equals that of the serial fine operator over the whole interval.         *)
C5_EqualsSerialFineForAnyTol ==
    (AllDone /\ parareal.max_iterations = Workers) =>
        p_solution = SerialTrajectory(Workers)

(* C5, amended: after n iterations the end-states of the first n            *)
(* sub-intervals equal the serial fine end-states, and the returned         *)
(* Solution equals the serial fine one over the first n + 1 sub-intervals:  *)
(* over the whole interval when at least W - 1 iterations ran, as they do   *)
(* with max_iterations = W and a tolerance that stops no iteration early.   *)
C5_EqualsSerialFineAfterEnoughIterations ==
    /\ \A w \in Ranks :
           p_pc[w] # "start" =>
               \A k \in 0..Min(p_n[w], Workers) : p_Y[w][k + 1] = SerialEnd(k)
    /\ AllDone =>
           \A i \in 1..(2 * Min(p_n[1] + 1, Workers)) :
               p_solution[i] = SerialTrajectory(Workers)[i]

(* A run with max_iterations = W and tol = 0 has done all W iterations and  *)
(* returned the serial fine Solution, from an initial coarse guess that     *)
(* was not the serial fine one.                                             *)
C5_Witness ==
    /\ AllDone
    /\ parareal.max_iterations = Workers
    /\ parareal.tol = 0
    /\ \A w \in Ranks : p_n[w] = Workers
    /\ p_solution = SerialTrajectory(Workers)
    /\ initial_sweep(parareal.g, p_y_0, Workers)[Workers + 1] # SerialEnd(Workers)

GradientReturned ==
    /\ Returned
    /\ nd_call.op = "gradient"
    /\ ~nd_result.raised
    /\ nd_call.args.mesh.coordinate_system_type = CARTESIAN

(* The derivative boundary constraint of the call that applies at the       *)
(* boundary vertex v of the lower or upper face of x_axis for component c.  *)
BoundaryDerivativeConstraint(x_axis, c, upper) ==
    IF nd_call.args.derivative_boundary_constraints.none THEN NoConstraint
    ELSE LET pair == nd_call.args.derivative_boundary_constraints.of[x_axis][c]
         IN  IF pair.none THEN NoConstraint
             ELSE IF upper THEN pair.upper ELSE pair.lower

ExpectedDerivative(x) ==
    LET x_axis == nd_call.params[1]
        y == nd_call.args.y
        two_d_x == RMul(R(2), nd_call.args.mesh.d_x[x_axis])
        i == x[x_axis]
        n == CallShape[x_axis]
        v == Drop(Drop(x, Len(x)), x_axis)
        constraint == BoundaryDerivativeConstraint(x_axis, x[Len(x)], i = n)
        applies == IF constraint.none THEN FALSE ELSE constraint.mask[v]
    IN  IF 1 < i /\ i < n
        THEN RDiv(RSub(y.at[Put(x, x_axis, i + 1)], y.at[Put(x, x_axis, i - 1)]),
                  two_d_x)
        ELSE IF applies THEN constraint.values[v]
        ELSE IF i = 1 THEN RDiv(y.at[Put(x, x_axis, 2)], two_d_x)
        ELSE RDiv(RNeg(y.at[Put(x, x_axis, n - 1)]), two_d_x)

(* C20: the first derivative along an axis is (y[i+1] - y[i-1]) / (2 d_x)   *)
(* at every interior index; at the lower and upper boundary index it is the *)
(* derivative boundary constraint's value wherever the constraint's mask is *)
(* set, and y[1] / (2 d_x) respectively -y[n-2] / (2 d_x) wherever no       *)
(* derivative constraint applies.                                           *)
C20_ThreePointFirstDerivative ==
    GradientReturned =>
        \A x \in DOMAIN nd_result.value.array.at :
            nd_result.value.array.at[x] = ExpectedDerivative(x)

(* A derivative over a mesh of 3 by 3 vertices was computed under           *)
(* constraints whose lower mask is unset and whose upper mask is set on one *)
(* vertex only; the three kinds of boundary entries hold three values.      *)
C20_Witness ==
    /\ GradientReturned
    /\ CallShape = <<3, 3>>
    /\ nd_call.params = <<1>>
    /\ nd_call.args.derivative_boundary_constraints
           = PartialFlux(CallShape, nd_call.args.y.ydim)
    /\ nd_result.value.array.at[<<3, 1, 1>>] = R(1)
    /\ nd_result.value.array.at[<<3, 2, 1>>] # R(1)
    /\ nd_result.value.array.at[<<1, 1, 1>>] # Zero
    /\ nd_result.value.array.at[<<2, 1, 1>>] # Zero

(* The estimate the next pass of the loop of anti_laplacian would store.    *)
NextSweepEstimate ==
    LET dbc == _verify_and_get_derivative_boundary_constraints(
                   nd_args.derivative_boundary_constraints,
                   dimensions(nd_args.mesh), nd_args.laplacian.ydim)
        estimate == _next_anti_laplacian_estimate(
                        nd_y.array, nd_args.laplacian, nd_args.mesh, dbc.value)
    IN  apply_constraints_along_last_axis(nd_args.y_constraints, estimate.value)

(* The loop is about to repeat its last pass: the change of the last sweep  *)
(* exceeds the tolerance and the next sweep changes the estimate by exactly *)
(* the same array.  A sweep is an affine map of the estimate, so the change *)
(* is then the same at every later sweep and diff > tol never turns false.  *)
SweepRepeatsForever ==
    /\ nd_call.running
    /\ nd_sweeps >= 1
    /\ JacobiContinues
    /\ ArrSub(NextSweepEstimate, nd_y.array) = ArrSub(nd_y.array, nd_y_old.array)

(* C11 as stated: the Jacobi anti-Laplacian terminates on every valid       *)
(* input, by returning an estimate within the tolerance or by failing after *)
(* a bounded number of sweeps; it is never in a loop that cannot end.       *)
C11_JacobiNeverIteratesForever == ~SweepRepeatsForever

------------------------------------------------------------------------------

(* The second derivative along a single axis.                               *)

(* hessian has returned the plain second derivative along one axis: on a    *)
(* Cartesian mesh, or along the r axis of a polar mesh.                     *)
SecondDerivativeReturned ==
    /\ Returned
    /\ nd_call.op = "hessian"
    /\ ~nd_result.raised
    /\ nd_call.params[1] = nd_call.params[2]
    /\ \/ nd_call.args.mesh.coordinate_system_type = CARTESIAN
       \/ nd_call.params[1] = 1

(* The value that stands for the neighbour of boundary entry x outside the  *)
(* mesh.                                                                    *)
ExpectedHalo(x) ==
    LET x_axis == nd_call.params[1]
        y == nd_call.args.y
        d_x == nd_call.args.mesh.d_x[x_axis]
        n == CallShape[x_axis]
        upper == x[x_axis] = n
        v == Drop(Drop(x, Len(x)), x_axis)
        g == BoundaryDerivativeConstraint(x_axis, x[Len(x)], upper)
        applies == IF g.none THEN FALSE ELSE g.mask[v]
    IN  IF ~applies THEN Zero
        ELSE IF upper
        THEN RAdd(y.at[Put(x, x_axis, n - 1)], RMul(RMul(R(2), d_x), g.values[v]))
        ELSE RSub(y.at[Put(x, x_axis, 2)], RMul(RMul(R(2), d_x), g.values[v]))

ExpectedSecondDerivative(x) ==
    LET x_axis == nd_call.params[1]
        y == nd_call.args.y
        d_x == nd_call.args.mesh.d_x[x_axis]
        i == x[x_axis]
        n == CallShape[x_axis]
        y_prev == IF i = 1 THEN ExpectedHalo(x) ELSE y.at[Put(x, x_axis, i - 1)]
        y_next == IF i = n THEN ExpectedHalo(x) ELSE y.at[Put(x, x_axis, i + 1)]
    IN  RDiv(RAdd(RSub(y_next, RMul(R(2), y.at[x])), y_prev), RMul(d_x, d_x))

(* C21: the second derivative along a single axis is                        *)
(* (y[i+1] - 2 y[i] + y[i-1]) / d_x^2 at every interior index; at a         *)
(* boundary index the missing neighbour is a halo value, which is           *)
(* y[1] - 2 d_x g at the lower and y[n-2] + 2 d_x g at the upper boundary   *)
(* wherever a derivative constraint of value g applies to the entry, and 0  *)
(* wherever none applies.                                                   *)
C21_SecondDerivativeWithHalos ==
    SecondDerivativeReturned =>
        \A x \in DOMAIN nd_result.value.array.at :
            nd_result.value.array.at[x] = ExpectedSecondDerivative(x)

(* The second derivative of y = (0, 1, 1, 0) was computed under a lower     *)
(* derivative constraint of value 1 and no upper one: the lower halo is     *)
(* 1 - 2 = -1 and the upper halo is 0, so the boundary entries are 0 and 1. *)
C21_Witness ==
    /\ SecondDerivativeReturned
    /\ CallShape = <<4>>
    /\ nd_call.args.derivative_boundary_constraints = LowerUnitFlux(CallShape, 1)
    /\ nd_call.args.y.at = (<<1, 1>> :> R(0)) @@ (<<2, 1>> :> R(1))
                           @@ (<<3, 1>> :> R(1)) @@ (<<4, 1>> :> R(0))
    /\ nd_result.value.array.at[<<1, 1>>] = R(0)
    /\ nd_result.value.array.at[<<4, 1>>] = R(1)

------------------------------------------------------------------------------

(* The stopping test and the y-constraints of anti_laplacian.               *)

(* The loop condition of anti_laplacian has just turned false: the next     *)
(* step returns the current estimate.                                       *)
AboutToReturn == nd_call.running /\ ~JacobiContinues

(* np.linalg.norm(y - y_old) compared with the tolerance.                   *)
ChangeBelowTolerance ==
    RLt(NormSqr(nd_y.array, nd_y_old.array),
        RMul(differentiator.tol, differentiator.tol))

ChangeEqualsTolerance ==
    NormSqr(nd_y.array, nd_y_old.array)
        = RMul(differentiator.tol, differentiator.tol)

(* C22 as stated: anti_laplacian performs at least one sweep and returns    *)
(* the estimate of a sweep whose change from the previous estimate is       *)
(* strictly below tol in the 2-norm; it never returns an estimate whose     *)
(* change is greater than or equal to tol.                                  *)
C22_ReturnsOnlyBelowTolerance ==
    AboutToReturn => nd_sweeps >= 1 /\ ChangeBelowTolerance

(* What the loop condition diff > tol gives: at least one sweep, and a      *)
(* returned estimate whose change is below or equal to tol.                 *)
ReturnsAtOrBelowTolerance ==
    AboutToReturn => nd_sweeps >= 1 /\ (ChangeBelowTolerance \/ ChangeEqualsTolerance)

(* The y-constraints of the call hold of the array y.                       *)
SatisfiesYConstraints(y) ==
    LET constraints == nd_call.args.y_constraints
    IN  IF constraints.none THEN TRUE
        ELSE \A c \in 1..y.ydim :
                IF constraints.of[c].none THEN TRUE
                ELSE \A v \in Vertices(y.shape) :
                        constraints.of[c].mask[v] =>
                            y.at[Append(v, c)] = constraints.of[c].values[v]

(* C23: throughout anti_laplacian the starting estimate and the estimate    *)
(* of every sweep satisfy every y-constraint (each masked entry equals the  *)
(* constraint's value), so both estimates compared in the stopping test and *)
(* the array returned do.                                                   *)
C23_EstimatesSatisfyYConstraints ==
    /\ (nd_call.op = "anti_laplacian" /\ nd_call.running) =>
           /\ SatisfiesYConstraints(nd_y.array)
           /\ nd_sweeps >= 1 => SatisfiesYConstraints(nd_y_old.array)
    /\ (Returned /\ nd_call.op = "anti_laplacian" /\ ~nd_result.raised) =>
           SatisfiesYConstraints(nd_result.value.array)

(* One sweep over 3 vertices has run from a supplied zero estimate under    *)
(* Dirichlet constraints of value 2: the boundary entries of both estimates *)
(* are 2 and the interior entries are not.                                  *)
C23_Witness ==
    /\ nd_call.op = "anti_laplacian"
    /\ nd_call.running
    /\ nd_sweeps = 1
    /\ CallShape = <<3>>
    /\ nd_call.args.y_constraints = Dirichlet(CallShape, 1, 2)
    /\ nd_call.args.y_init = SomeArray(ConstArr(CallShape, 1, 0))
    /\ nd_y_old.array.at[<<2, 1>>] = R(0)
    /\ nd_y.array.at[<<2, 1>>] # R(2)
    /\ nd_y.array.at[<<1, 1>>] = R(2)

------------------------------------------------------------------------------

(* The Hessian on a polar mesh.                                             *)

PolarHessianReturned ==
    /\ Returned
    /\ nd_call.op = "hessian"
    /\ ~nd_result.raised
    /\ nd_call.args.mesh.coordinate_system_type = POLAR

(* The Hessian entry of the axes of the call with the curvilinear           *)
(* correction of a polar mesh: raw for (r, r), with the first derivative    *)
(* along theta for the mixed axes, with the first derivative along r for    *)
(* (theta, theta).                                                          *)
CorrectedPolarHessian ==
    LET y == nd_call.args.y
        mesh == nd_call.args.mesh
        x_axis1 == nd_call.params[1]
        x_axis2 == nd_call.params[2]
        dbc == _verify_and_get_derivative_boundary_constraints(
                   nd_call.args.derivative_boundary_constraints,
                   dimensions(mesh), y.ydim).value
        second_derivative ==
            _second_derivative(y, mesh.d_x[x_axis1], mesh.d_x[x_axis2],
                               x_axis1, x_axis2, dbc[x_axis1]).value
        d_y_over_d_r == _derivative(y, mesh.d_x[1], 1, dbc[1]).value
        d_y_over_d_theta == _derivative(y, mesh.d_x[2], 2, dbc[2]).value
    IN  IF x_axis1 = 1 /\ x_axis2 = 1 THEN second_derivative
        ELSE IF x_axis1 = 2 /\ x_axis2 = 2
        THEN ArrDivR(ArrAdd(ArrDivR(second_derivative, mesh), d_y_over_d_r), mesh)
        ELSE ArrDivR(ArrSub(second_derivative, ArrDivR(d_y_over_d_theta, mesh)), mesh)

(* C24 as stated: on a polar mesh hessian returns                           *)
(* (d2y/dr dtheta - (dy/dtheta)/r)/r for the mixed axes (r, theta) and      *)
(* (theta, r), ((d2y/dtheta2)/r + dy/dr)/r for (theta, theta), and the raw  *)
(* second derivative only for (r, r).                                       *)
C24_PolarHessianCorrected ==
    PolarHessianReturned => nd_result.value.array = CorrectedPolarHessian

(* What hessian computes on a polar mesh: the corrected entry for           *)
(* (theta, theta), and the raw second derivative whenever one of the two    *)
(* axes is r.                                                               *)
PolarHessianCorrectedForThetaOnly ==
    PolarHessianReturned =>
        IF nd_call.params = <<2, 2>>
        THEN nd_result.value.array = CorrectedPolarHessian
        ELSE nd_result.value.array =
                 _second_derivative(
                     nd_call.args.y,
                     nd_call.args.mesh.d_x[nd_call.params[1]],
                     nd_call.args.mesh.d_x[nd_call.params[2]],
                     nd_call.params[1], nd_call.params[2],
                     _verify_and_get_derivative_boundary_constraints(
                         nd_call.args.derivative_boundary_constraints,
                         dimensions(nd_call.args.mesh),
                         nd_call.args.y.ydim).value[nd_call.params[1]]).value

------------------------------------------------------------------------------

(* The Jacobi update applied to the Laplacian of a known y: a caller        *)
(* computes laplacian(y) and passes it to anti_laplacian as the right-hand  *)
(* side, with y itself as the initial estimate, the same derivative         *)
(* boundary constraints and no y-constraints.                               *)

RoundTripMeshes ==
    {Mesh(<<n>>, <<Rat(1, 2)>>, <<R(0)>>, CARTESIAN) : n \in 3..MaxN}
    \cup {Mesh(<<3, 3>>, <<R(1), Rat(1, 2)>>, <<R(0), R(0)>>, CARTESIAN),
          Mesh(<<3, 3, 3>>, <<R(1), Rat(1, 2), R(2)>>, <<R(0), R(0), R(0)>>, CARTESIAN),
          Mesh(<<3, 3>>, <<R(1), R(1)>>, <<R(1), R(0)>>, POLAR)}

(* Every array of zeros and ones over a one dimensional mesh; a polynomial  *)
(* family that varies along every axis over the other meshes.               *)
RoundTripArrays(shape, ydim) ==
    IF Len(shape) = 1 THEN InputArrays(shape, ydim)
    ELSE {Arr(shape, ydim,
              [x \in Idx(shape, ydim) |->
                  R(p[1] * x[1] + p[2] * x[2] * x[2]
                    + p[3] * x[1] * x[Len(shape)] * x[Len(shape)] * x[Len(x)])]) :
              p \in [1..3 -> 0..1]}

RoundTripInputs ==
    UNION {
      UNION {
        {[mesh |-> mesh, y |-> y,
          laplacian |-> laplacian(y, mesh, dbc).value,
          y_init |-> SomeArray(y),
          y_constraints |-> NoConstraints,
          derivative_boundary_constraints |-> dbc] :
            y \in RoundTripArrays(mesh.vertices_shape, ydim),
            dbc \in DerivativeConstraintInputs(mesh.vertices_shape, ydim)
                       \cup {PartialFlux(mesh.vertices_shape, ydim)}}
        : ydim \in 1..(IF Len(mesh.vertices_shape) = 2 THEN 2 ELSE 1)}
      : mesh \in RoundTripMeshes}

(* The polar round trips run with a tolerance that ends the iteration after *)
(* a few sweeps, whatever the estimates do.                                 *)
PolarTolerance == R(16)

InitRoundTrip ==
    /\ nd_args \in RoundTripInputs
    /\ differentiator \in
           {[tol |-> tol] :
               tol \in IF nd_args.mesh.coordinate_system_type = POLAR
                       THEN {PolarTolerance} ELSE Tolerances}
    /\ nd_call = Idle(nd_args)
    /\ nd_y = NoArray
    /\ nd_y_old = NoArray
    /\ nd_sweeps = 0
    /\ nd_result = Pending

NextRoundTrip ==
    \/ CallLaplacian
    \/ AntiLaplacianBegin
    \/ JacobiSweep
    \/ AntiLaplacianReturn

InitRoundTripOnly == InitRoundTrip /\ SolveIdle /\ PararealIdle /\ ConstructIdle

SpecRoundTrip == InitRoundTripOnly /\ [][NextRoundTrip]_vars

(* anti_laplacian was called with the Laplacian of its initial estimate as  *)
(* the right-hand side and has completed its first sweep.                   *)
FirstSweepFromLaplacian(type) ==
    /\ nd_call.op = "anti_laplacian"
    /\ nd_call.running
    /\ nd_sweeps = 1
    /\ nd_call.args.mesh.coordinate_system_type = type
    /\ nd_call.args.y_constraints.none
    /\ nd_call.args.y_init = SomeArray(nd_call.args.y)
    /\ laplacian(nd_call.args.y, nd_call.args.mesh,
                 nd_call.args.derivative_boundary_constraints)
           = Ok(nd_call.args.laplacian)

(* C25 as stated: on a polar mesh a y whose Laplacian (with the same        *)
(* derivative constraints) is the right-hand side is left unchanged by one  *)
(* Jacobi sweep at every vertex, the r boundaries included.                 *)
C25_PolarFixedPoint ==
    FirstSweepFromLaplacian(POLAR) => nd_y.array = nd_call.args.y

(* What the polar update gives: y is left unchanged at every vertex that is *)
(* not on the lower r boundary.                                             *)
PolarFixedPointAboveLowerBoundary ==
    FirstSweepFromLaplacian(POLAR) =>
        \A x \in DOMAIN nd_y.array.at :
            x[1] # 1 => nd_y.array.at[x] = nd_call.args.y.at[x]

(* C30: on a Cartesian mesh of rank 1 to 3 one Jacobi sweep with the        *)
(* right-hand side laplacian(y), computed with the same derivative boundary *)
(* constraints, returns y at every vertex, boundary vertices included.      *)
C30_CartesianFixedPoint ==
    FirstSweepFromLaplacian(CARTESIAN) => nd_y.array = nd_call.args.y

(* The first sweep over a mesh of rank 3 with three different step sizes    *)
(* has run under partly masked derivative constraints, from a y that is     *)
(* not constant and whose Laplacian is not zero.                            *)
C30_Witness ==
    /\ FirstSweepFromLaplacian(CARTESIAN)
    /\ CallShape = <<3, 3, 3>>
    /\ nd_call.args.derivative_boundary_constraints = PartialFlux(CallShape, 1)
    /\ nd_call.args.y.at[<<1, 1, 1, 1>>] # nd_call.args.y.at[<<2, 2, 3, 1>>]
    /\ nd_call.args.laplacian.at[<<2, 2, 2, 1>>] # Zero
    /\ nd_y.array.at[<<3, 1, 1, 1>>] = nd_call.args.y.at[<<3, 1, 1, 1>>]

------------------------------------------------------------------------------
(* Construction of differential equations.                                  *)

(* A sympy symbol of an array made by symarray: the array's name and the    *)
(* zero-based index of the element; two symbols are equal when both agree.  *)
Symbol(array, index) == [array |-> array, index |-> index]

(* symarray(prefix, shape): one symbol for every index within the shape.    *)
symarray(prefix, shape) ==
    IF \E k \in DOMAIN shape : shape[k] < 1 THEN {}
    ELSE {Symbol(prefix, index) :
            index \in {i \in [DOMAIN shape -> 0..(MaxOf(shape) - 1)] :
                         \A k \in DOMAIN shape : i[k] < shape[k]}}

NoSymbols == [none |-> TRUE]
SomeSymbols(symbols) == [none |-> FALSE, symbols |-> symbols]

(* (n,) * count                                                             *)
Repeat(n, count) == [k \in 1..count |-> n]

(* Symbols.__init__                                                         *)
Symbols(x_dimension, y_dimension) ==
    [t |-> Symbol("t", <<>>),
     y |-> symarray("y", <<y_dimension>>),
     y_gradient |->
         IF x_dimension # 0
         THEN SomeSymbols(symarray("y-gradient", <<y_dimension, x_dimension>>))
         ELSE NoSymbols,
     y_hessian |->
         IF x_dimension # 0
         THEN SomeSymbols(symarray("y-hessian",
                                   <<y_dimension, x_dimension, x_dimension>>))
         ELSE NoSymbols,
     y_divergence |->
         IF x_dimension # 0
         THEN SomeSymbols(symarray("y-divergence", Repeat(y_dimension, x_dimension)))
         ELSE NoSymbols,
     y_curl |->
         IF x_dimension = 2
         THEN SomeSymbols(symarray("y-curl", Repeat(y_dimension, x_dimension)))
         ELSE IF x_dimension = 3
         THEN SomeSymbols(symarray("y-curl",
                                   Repeat(y_dimension, x_dimension) \o <<x_dimension>>))
         ELSE NoSymbols,
     y_laplacian |->
         IF x_dimension # 0
         THEN SomeSymbols(symarray("y-laplacian", <<y_dimension>>))
         ELSE NoSymbols]

D_Y_OVER_D_T == "D_Y_OVER_D_T"
Y == "Y"
Y_LAPLACIAN == "Y_LAPLACIAN"
Lhs == {D_Y_OVER_D_T, Y, Y_LAPLACIAN}

NoLhsTypes == [none |-> TRUE]
LhsTypes(types) == [none |-> FALSE, of |-> types]

(* A variant of SymbolicEquationSystem.__init__ whose default left-hand     *)
(* side is the direct value y.                                              *)
SymbolicEquationSystem_of_direct_values(rhs, lhs_types) ==
    IF Len(rhs) < 1 THEN Raise
    ELSE LET types == IF lhs_types.none THEN [i \in 1..Len(rhs) |-> Y]
                      ELSE lhs_types.of
         IN  IF Len(rhs) # Len(types) THEN Raise
             ELSE Ok([rhs |-> rhs, lhs_types |-> types])

(* SymbolicEquationSystem.__init__; an expression of rhs is modelled by the *)
(* set of its free symbols.                                                 *)
SymbolicEquationSystem(rhs, lhs_types) ==
    IF Len(rhs) < 1 THEN Raise
    ELSE LET types == IF lhs_types.none THEN [i \in 1..Len(rhs) |-> D_Y_OVER_D_T]
                      ELSE lhs_types.of
         IN  IF Len(rhs) # Len(types) THEN Raise
             ELSE Ok([rhs |-> rhs, lhs_types |-> types])

(* The symbols _validate_equations collects into all_symbols.               *)
all_symbols(x_dimension, symbols) ==
    {symbols.t} \cup symbols.y \cup
    (IF x_dimension # 0
     THEN symbols.y_gradient.symbols \cup symbols.y_hessian.symbols
          \cup symbols.y_divergence.symbols
          \cup (IF 2 <= x_dimension /\ x_dimension <= 3
                THEN symbols.y_curl.symbols ELSE {})
          \cup symbols.y_laplacian.symbols
     ELSE {})

(* A variant of _validate_equations without the check of the free symbols.  *)
_validate_equations_ignoring_symbols(x_dimension, y_dimension, symbols, equations) ==
    LET equation_system == SymbolicEquationSystem(equations.rhs, equations.lhs_types)
    IN  IF equation_system.raised THEN Raise
        ELSE IF Len(equation_system.value.rhs) # y_dimension THEN Raise
        ELSE LET lhs_types ==
                     {equation_system.value.lhs_types[i] :
                        i \in DOMAIN equation_system.value.lhs_types}
             IN  IF x_dimension # 0
                 THEN (IF D_Y_OVER_D_T \notin lhs_types THEN Raise
                       ELSE equation_system)
                 ELSE (IF Y \in lhs_types \/ Y_LAPLACIAN \in lhs_types THEN Raise
                       ELSE equation_system)

(* DifferentialEquation._validate_equations; equations are the arguments    *)
(* with which the subclass's symbolic_equation_system property builds its   *)
(* SymbolicEquationSystem.  The result is the validated system.             *)
_validate_equations(x_dimension, y_dimension, symbols, equations) ==
    LET equation_system == SymbolicEquationSystem(equations.rhs, equations.lhs_types)
    IN  IF equation_system.raised THEN Raise
        ELSE IF Len(equation_system.value.rhs) # y_dimension THEN Raise
        ELSE IF \E i \in DOMAIN equation_system.value.rhs :
                  ~(equation_system.value.rhs[i]
                        \subseteq all_symbols(x_dimension, symbols))
        THEN Raise
        ELSE LET lhs_types ==
                     {equation_system.value.lhs_types[i] :
                        i \in DOMAIN equation_system.value.lhs_types}
             IN  IF x_dimension # 0
                 THEN (IF D_Y_OVER_D_T \notin lhs_types THEN Raise
                       ELSE equation_system)
                 ELSE (IF Y \in lhs_types \/ Y_LAPLACIAN \in lhs_types THEN Raise
                       ELSE equation_system)

(* DifferentialEquation.__init__                                            *)
DifferentialEquation(x_dimension, y_dimension, equations) ==
    IF x_dimension < 0 THEN Raise
    ELSE IF y_dimension < 1 THEN Raise
    ELSE LET symbols == Symbols(x_dimension, y_dimension)
             validated == _validate_equations(x_dimension, y_dimension,
                                              symbols, equations)
         IN  IF validated.raised THEN Raise
             ELSE Ok([class |-> "DifferentialEquation",
                      x_dimension |-> x_dimension,
                      y_dimension |-> y_dimension,
                      symbols |-> symbols,
                      symbolic_equation_system |-> validated.value])

(* The symbols the right-hand sides of the model are written with: symbols  *)
(* of the bundles of one, two and three spatial dimensions.                 *)
SymbolInputs ==
    {Symbol("t", <<>>), Symbol("y", <<0>>), Symbol("y", <<1>>),
     Symbol("y-gradient", <<0, 0>>), Symbol("y-hessian", <<0, 0, 0>>),
     Symbol("y-divergence", <<0>>), Symbol("y-divergence", <<0, 0>>),
     Symbol("y-divergence", <<0, 0, 0>>),
     Symbol("y-curl", <<0, 0>>), Symbol("y-curl", <<0, 0, 0, 0>>),
     Symbol("y-laplacian", <<0>>)}

(* Expressions: a constant, one symbol, or t together with y_1.             *)
ExpressionInputs ==
    {{}} \cup {{symbol} : symbol \in SymbolInputs}
         \cup {{Symbol("t", <<>>), Symbol("y", <<1>>)}}

MaxEquations == 2  \* right-hand sides and left-hand side types per system

SequencesUpTo(S, n) == UNION {[1..k -> S] : k \in 0..n}

(* Right-hand sides: up to MaxEquations expressions, all constant but one.  *)
RhsInputs ==
    {<<>>} \cup
    {[j \in 1..k |-> IF j = i THEN expression ELSE {}] :
        k \in 1..MaxEquations, i \in 1..MaxEquations,
        expression \in ExpressionInputs}

EquationInputs ==
    [rhs : RhsInputs,
     lhs_types : {NoLhsTypes} \cup
                 {LhsTypes(types) : types \in SequencesUpTo(Lhs, MaxEquations)}]

(* The largest number of spatial dimensions for which a curl is defined.    *)
MaxCurlDimension == 3

DifferentialEquationInputs ==
    [class : {"DifferentialEquation"},
     x_dimension : -1..(MaxCurlDimension + 1),
     y_dimension : 0..MaxEquations,
     equations : EquationInputs]

Constructing(class) ==
    /\ constructor.class = class
    /\ constructed = Pending

ConstructDifferentialEquation ==
    /\ Constructing("DifferentialEquation")
    /\ constructed' = DifferentialEquation(constructor.x_dimension,
                                           constructor.y_dimension,
                                           constructor.equations)
    /\ UNCHANGED <<constructor, solveVars, ndVars, pVars>>

(* The constructor of the class has returned or raised.                     *)
Constructed(class) ==
    /\ constructor.class = class
    /\ constructed # Pending

WithinShape(index, shape) ==
    /\ Len(index) = Len(shape)
    /\ \A k \in DOMAIN shape : 0 <= index[k] /\ index[k] < shape[k]

(* Membership of the symbol bundle of (x_dimension, y_dimension): t and y   *)
(* always, the gradient, Hessian, divergence and Laplacian with at least    *)
(* one spatial dimension, the curl with two or three.                       *)
InBundle(symbol, x_dimension, y_dimension) ==
    CASE symbol.array = "t" -> TRUE
      [] symbol.array = "y" -> WithinShape(symbol.index, <<y_dimension>>)
      [] symbol.array = "y-gradient" ->
             /\ x_dimension > 0
             /\ WithinShape(symbol.index, <<y_dimension, x_dimension>>)
      [] symbol.array = "y-hessian" ->
             /\ x_dimension > 0
             /\ WithinShape(symbol.index, <<y_dimension, x_dimension, x_dimension>>)
      [] symbol.array = "y-divergence" ->
             /\ x_dimension > 0
             /\ WithinShape(symbol.index, Repeat(y_dimension, x_dimension))
      [] symbol.array = "y-laplacian" ->
             /\ x_dimension > 0
             /\ WithinShape(symbol.index, <<y_dimension>>)
      [] symbol.array = "y-curl" ->
             \/ /\ x_dimension = 2
                /\ WithinShape(symbol.index, <<y_dimension, y_dimension>>)
             \/ /\ x_dimension = 3
                /\ WithinShape(symbol.index,
                               <<y_dimension, y_dimension, y_dimension, 3>>)

RhsWithinBundle ==
    \A i \in DOMAIN constructor.equations.rhs :
        \A symbol \in constructor.equations.rhs[i] :
            InBundle(symbol, constructor.x_dimension, constructor.y_dimension)

(* C12: constructing a DifferentialEquation fails whenever a right-hand     *)
(* side has a free symbol outside the symbol bundle of its dimensions, the  *)
(* number of right-hand sides differs from y_dimension, x_dimension < 0 or  *)
(* y_dimension < 1.                                                         *)
C12_InvalidEquationsRejected ==
    Constructed("DifferentialEquation") =>
        (  \/ constructor.x_dimension < 0
           \/ constructor.y_dimension < 1
           \/ Len(constructor.equations.rhs) # constructor.y_dimension
           \/ ~RhsWithinBundle
         => constructed.raised)

(* A curl symbol in the only equation of a system of one spatial dimension  *)
(* was rejected.                                                            *)
C12_Witness ==
    /\ Constructed("DifferentialEquation")
    /\ constructor.x_dimension = 1
    /\ constructor.y_dimension = 1
    /\ constructor.equations.rhs = <<{Symbol("y-curl", <<0, 0>>)}>>
    /\ constructor.equations.lhs_types = NoLhsTypes
    /\ constructed.raised

(* The arguments pass every check other than the one of the left-hand side  *)
(* kinds.                                                                   *)
ValidButForLhsKinds ==
    /\ constructor.x_dimension >= 0
    /\ constructor.y_dimension >= 1
    /\ Len(constructor.equations.rhs) = constructor.y_dimension
    /\ RhsWithinBundle
    /\ IF constructor.equations.lhs_types.none THEN TRUE
       ELSE Len(constructor.equations.lhs_types.of) = Len(constructor.equations.rhs)

GivenLhsKinds ==
    IF constructor.equations.lhs_types.none THEN {D_Y_OVER_D_T}
    ELSE {constructor.equations.lhs_types.of[i] :
            i \in DOMAIN constructor.equations.lhs_types.of}

(* C13: constructing a DifferentialEquation fails when x_dimension = 0 and  *)
(* some left-hand side kind is y or the Laplacian of y, and when            *)
(* x_dimension > 0 and no left-hand side is dy/dt; every other combination  *)
(* of kinds is accepted; a system given without kinds has kind dy/dt for    *)
(* every equation.                                                          *)
C13_LhsKindsValidated ==
    (Constructed("DifferentialEquation") /\ ValidButForLhsKinds) =>
        /\ constructed.raised <=>
               \/ /\ constructor.x_dimension = 0
                  /\ (Y \in GivenLhsKinds \/ Y_LAPLACIAN \in GivenLhsKinds)
               \/ /\ constructor.x_dimension > 0
                  /\ D_Y_OVER_D_T \notin GivenLhsKinds
        /\ constructor.equations.lhs_types.none =>
               IF constructed.raised THEN FALSE
               ELSE constructed.value.symbolic_equation_system.lhs_types
                        = [i \in 1..constructor.y_dimension |-> D_Y_OVER_D_T]

(* A system of one spatial dimension whose two equations define y and the   *)
(* Laplacian of y, none dy/dt, was rejected.                                *)
C13_Witness ==
    /\ Constructed("DifferentialEquation")
    /\ ValidButForLhsKinds
    /\ constructor.x_dimension = 1
    /\ constructor.y_dimension = 2
    /\ constructor.equations.lhs_types = LhsTypes(<<Y, Y_LAPLACIAN>>)
    /\ constructed.raised

------------------------------------------------------------------------------
(* Construction of operators and differentiators.                           *)

(* ODEOperator.__init__ and FVMOperator.__init__                            *)
ConventionalOperator(kind, d_t) ==
    IF RLe(d_t, Zero) THEN Raise
    ELSE Ok([class |-> "Operator", kind |-> kind, d_t |-> d_t,
             batch_mode |-> FALSE, model |-> FALSE])

(* FDMOperator.__init__                                                     *)
FDMOperator(d_t, tol) ==
    IF RLe(d_t, Zero) THEN Raise
    ELSE Ok([class |-> "Operator", kind |-> FDM, d_t |-> d_t, tol |-> tol,
             batch_mode |-> FALSE, model |-> FALSE])

(* MLOperator.__init__, followed for a stateless operator by the rest of    *)
(* StatelessMLOperator.__init__; no model is held before training.          *)
MLOperator(kind, d_t, batch_mode) ==
    IF RLe(d_t, Zero) THEN Raise
    ELSE Ok([class |-> "Operator", kind |-> kind, d_t |-> d_t,
             batch_mode |-> (kind = StatelessML /\ batch_mode), model |-> FALSE])

(* NumericalDifferentiator.__init__                                         *)
NumericalDifferentiator(tol) ==
    IF RLt(tol, Zero) THEN Raise
    ELSE Ok([class |-> "NumericalDifferentiator", tol |-> tol])

StepSizeInputs == {R(-1), Zero, Rat(1, 2), R(1)}
ToleranceInputs == {R(-1), Zero, R(1)}

OperatorInputs ==
    [class : {"Operator"}, kind : {ODE, FVM, FDM, StatelessML, StatefulML},
     d_t : StepSizeInputs, tol : ToleranceInputs, batch_mode : BOOLEAN]

NumericalDifferentiatorInputs ==
    [class : {"NumericalDifferentiator"}, tol : ToleranceInputs]

ConstructOperator ==
    /\ Constructing("Operator")
    /\ constructed' =
           (IF constructor.kind \in {ODE, FVM}
            THEN ConventionalOperator(constructor.kind, constructor.d_t)
            ELSE IF constructor.kind = FDM
            THEN FDMOperator(constructor.d_t, constructor.tol)
            ELSE MLOperator(constructor.kind, constructor.d_t,
                            constructor.batch_mode))
    /\ UNCHANGED <<constructor, solveVars, ndVars, pVars>>

ConstructNumericalDifferentiator ==
    /\ Constructing("NumericalDifferentiator")
    /\ constructed' = NumericalDifferentiator(constructor.tol)
    /\ UNCHANGED <<constructor, solveVars, ndVars, pVars>>

(* C14 as stated: every operator constructor rejects d_t <= 0 and every     *)
(* constructor taking a tolerance (NumericalDifferentiator, FDMOperator)    *)
(* rejects tol < 0, so no constructed operator or differentiator holds a    *)
(* non-positive d_t or a negative tol.                                      *)
C14_ParametersValidatedAtConstruction ==
    /\ (Constructed("Operator") /\ ~constructed.raised) =>
           /\ RLt(Zero, constructed.value.d_t)
           /\ constructed.value.kind = FDM => RLe(Zero, constructed.value.tol)
    /\ (Constructed("NumericalDifferentiator") /\ ~constructed.raised) =>
           RLe(Zero, constructed.value.tol)

(* The part of C14 that the constructors enforce: the step size of every    *)
(* constructed operator is positive and the tolerance of every constructed  *)
(* differentiator is non-negative.                                          *)
StepSizeAndDifferentiatorToleranceValidated ==
    /\ (Constructed("Operator") /\ ~constructed.raised) =>
           RLt(Zero, constructed.value.d_t)
    /\ (Constructed("NumericalDifferentiator") /\ ~constructed.raised) =>
           RLe(Zero, constructed.value.tol)

------------------------------------------------------------------------------
(* Construction of meshes.                                                  *)

(* The largest rank for which a FiPy mesh and a DeepXDE geometry exist.     *)
MaxMeshRank == 3

(* UniformGrid._calculate_shape: round((b - a) / d_x + 1) for every axis;   *)
(* the division raises for a step size of zero.                             *)
_calculate_shape(x_intervals, d_x) ==
    IF \E i \in DOMAIN x_intervals : d_x[i] = Zero THEN Raise
    ELSE Ok([i \in DOMAIN x_intervals |->
                Round(RAdd(RDiv(RSub(x_intervals[i][2], x_intervals[i][1]), d_x[i]),
                           R(1)))])

(* UniformGrid._create_fipy_mesh and _create_deepxde_geometry: they raise   *)
(* NotImplementedError beyond three dimensions.  The FiPy grid is built by  *)
(* the library; for a step size or a cell count that is not positive the    *)
(* source does not decide whether the library raises, which fipy_accepts    *)
(* leaves open.                                                             *)
_create_fipy_mesh(x_intervals, d_x, shape, fipy_accepts) ==
    IF Len(x_intervals) \notin 1..MaxMeshRank THEN Raise
    ELSE IF \A i \in DOMAIN x_intervals : RLt(Zero, d_x[i]) /\ shape[i] >= 1
    THEN Ok(shape)
    ELSE IF fipy_accepts THEN Ok(shape) ELSE Raise

(* UniformGrid.__init__                                                     *)
UniformGrid(x_intervals, d_x, fipy_accepts) ==
    IF ~(Len(x_intervals) > 0) THEN Raise
    ELSE IF Len(x_intervals) # Len(d_x) THEN Raise
    ELSE IF \E i \in DOMAIN x_intervals :
              \/ Len(x_intervals[i]) # 2
              \/ ~RLt(x_intervals[i][1], x_intervals[i][2])
    THEN Raise
    ELSE LET shape == _calculate_shape(x_intervals, d_x)
         IN  IF shape.raised THEN Raise
             ELSE IF _create_fipy_mesh(x_intervals, d_x, shape.value,
                                       fipy_accepts).raised
             THEN Raise
             ELSE Ok([class |-> "UniformGrid", x_intervals |-> x_intervals,
                      shape |-> shape.value, d_x |-> d_x])

SpatialDomainIntervals ==
    {<<R(0), R(1)>>, <<R(0), Rat(3, 2)>>, <<R(1), R(1)>>, <<R(1), R(0)>>}

SpatialStepSizes == {R(-4), Zero, Rat(1, 2), R(1), R(2)}

(* Meshes of rank 0 to MaxMeshRank + 1 with one step size per axis, one too *)
(* few or one too many; one interval and one step size vary.                *)
UniformGridInputs ==
    UNION {
      {[class |-> "UniformGrid",
        x_intervals |-> [k \in 1..rank |->
                            IF k = i THEN interval ELSE <<R(0), R(1)>>],
        d_x |-> [k \in 1..steps |-> IF k = j THEN d ELSE R(1)]] :
          i \in 1..MaxMeshRank, j \in 1..MaxMeshRank,
          interval \in SpatialDomainIntervals, d \in SpatialStepSizes,
          steps \in {s \in {rank - 1, rank, rank + 1} : s >= 0}}
      : rank \in 0..(MaxMeshRank + 1)}

ConstructUniformGrid ==
    /\ Constructing("UniformGrid")
    /\ \E fipy_accepts \in BOOLEAN :
           constructed' = UniformGrid(constructor.x_intervals, constructor.d_x,
                                      fipy_accepts)
    /\ UNCHANGED <<constructor, solveVars, ndVars, pVars>>

(* C15 as stated: along every axis of a mesh the number of vertices is      *)
(* round((b - a) / d_x) + 1 under the rounding rule of the time             *)
(* discretisation, also when the ratio lies halfway between two integers.   *)
C15_VertexCountIsRoundedRatioPlusOne ==
    (Constructed("UniformGrid") /\ ~constructed.raised) =>
        \A i \in DOMAIN constructor.x_intervals :
            constructed.value.shape[i] =
                Round(RDiv(RSub(constructor.x_intervals[i][2],
                                constructor.x_intervals[i][1]),
                           constructor.d_x[i])) + 1

(* C16 as stated: mesh construction fails unless 1 <= rank <= 3, there is   *)
(* one step size per axis, every step size is positive and every interval   *)
(* has b > a.                                                               *)
C16_InvalidMeshesRejected ==
    (Constructed("UniformGrid") /\ ~constructed.raised) =>
        /\ Len(constructor.x_intervals) \in 1..3
        /\ Len(constructor.d_x) = Len(constructor.x_intervals)
        /\ \A i \in DOMAIN constructor.d_x : RLt(Zero, constructor.d_x[i])
        /\ \A i \in DOMAIN constructor.x_intervals :
               RLt(constructor.x_intervals[i][1], constructor.x_intervals[i][2])

(* The checks the constructor makes itself: rank, one step size per axis,   *)
(* no step size of zero, b > a.                                             *)
MeshChecksOfTheConstructor ==
    (Constructed("UniformGrid") /\ ~constructed.raised) =>
        /\ Len(constructor.x_intervals) \in 1..3
        /\ Len(constructor.d_x) = Len(constructor.x_intervals)
        /\ \A i \in DOMAIN constructor.d_x : constructor.d_x[i] # Zero
        /\ \A i \in DOMAIN constructor.x_intervals :
               RLt(constructor.x_intervals[i][1], constructor.x_intervals[i][2])

------------------------------------------------------------------------------
(* Construction of boundary value problems and initial value problems.      *)

None == [none |-> TRUE]
Some(v) == [none |-> FALSE, of |-> v]

(* np.nan, which no arithmetic of the model produces.                       *)
NaN == <<0, 0>>

isnan(v) == v = NaN

(* A BoundaryCondition: whether it has a y-condition, and the function of   *)
(* the y-condition.  The functions of the model are constant, NaN           *)
(* everywhere, constant for the first component only, and constant except   *)
(* at the point whose coordinates are all zero.                             *)
BoundaryCondition(has_y_condition, y_condition) ==
    [has_y_condition |-> has_y_condition, y_condition |-> y_condition]

(* condition_function(x): the values of the components of y at x.           *)
condition_function(f, x, y_dimension) ==
    [c \in 1..y_dimension |->
        IF f.kind = "constant" THEN R(f.value)
        ELSE IF f.kind = "first component" THEN (IF c = 1 THEN R(f.value) ELSE NaN)
        ELSE IF f.kind = "away from origin"
        THEN (IF \A k \in DOMAIN x : x[k] = Zero THEN NaN ELSE R(f.value))
        ELSE NaN]

(* _set_boundary_and_mask_values on the slice of index slice_index of       *)
(* fixed_axis of the arrays constrained_y_values and y_mask; the value is   *)
(* the two arrays after the call.                                           *)
_set_boundary_and_mask_values(f, arrays, slice_index, fixed_axis, mesh, y_dimension) ==
    LET non_fixed_x_offset_arr == Drop(mesh.x_offset, fixed_axis)
        non_fixed_d_x_arr == Drop(mesh.d_x, fixed_axis)
        x(index) == [k \in DOMAIN index |->
                        RAdd(non_fixed_x_offset_arr[k],
                             RMul(R(index[k] - 1), non_fixed_d_x_arr[k]))]
        boundary == [e \in DOMAIN arrays.values |->
                        IF e[fixed_axis] = slice_index
                        THEN condition_function(
                                 f, x(Drop(Drop(e, Len(e)), fixed_axis)),
                                 y_dimension)[e[Len(e)]]
                        ELSE arrays.values[e]]
    IN  [values |-> boundary,
         mask |-> [e \in DOMAIN arrays.mask |->
                      IF e[fixed_axis] = slice_index /\ ~isnan(boundary[e])
                      THEN TRUE ELSE arrays.mask[e]]]

(* The loop of _create_y_boundary_constraint_functions over the first       *)
(* fixed_axes axes: the lower and then the upper boundary of every axis.    *)
RECURSIVE _y_boundary_values_and_mask(_, _, _, _, _)
_y_boundary_values_and_mask(fixed_axes, mesh, boundary_conditions, y_dimension, empty) ==
    IF fixed_axes = 0
    THEN [values |-> empty,
          mask |-> [e \in DOMAIN empty |-> FALSE]]
    ELSE LET before == _y_boundary_values_and_mask(
                           fixed_axes - 1, mesh, boundary_conditions, y_dimension, empty)
             bc == boundary_conditions[fixed_axes]
             lower == IF bc[1].has_y_condition
                      THEN _set_boundary_and_mask_values(
                               bc[1].y_condition, before, 1, fixed_axes,
                               mesh, y_dimension)
                      ELSE before
         IN  IF bc[2].has_y_condition
             THEN _set_boundary_and_mask_values(
                      bc[2].y_condition, lower, mesh.shape[fixed_axes], fixed_axes,
                      mesh, y_dimension)
             ELSE lower

(* The constrained values and the mask that the y constraint functions      *)
(* close over; empty is the content of np.empty(y_shape).                   *)
_create_y_boundary_constraint_functions(x_dimension, y_dimension, mesh, boundary_conditions, empty) ==
    LET arrays == _y_boundary_values_and_mask(
                      x_dimension, mesh, boundary_conditions, y_dimension, empty)
    IN  [values |-> arrays.values,
         mask |-> [e \in DOMAIN arrays.mask |->
                      IF isnan(arrays.values[e]) THEN FALSE ELSE arrays.mask[e]]]

(* y_constraint_function of component i applied to the array y of that      *)
(* component, in place; the value is the content of y after the call.       *)
y_constraint_function(functions, i, y) ==
    [v \in DOMAIN y |->
        IF functions.mask[Append(v, i)] THEN functions.values[Append(v, i)] ELSE y[v]]

(* A variant of BoundaryValueProblem.__init__ that keeps the mesh and the   *)
(* boundary conditions it is given for an ODE.                              *)
BoundaryValueProblem_keeping_arguments(diff_eq, mesh, boundary_conditions, empty) ==
    IF diff_eq.none THEN Raise
    ELSE Ok([class |-> "BoundaryValueProblem", diff_eq |-> diff_eq.of,
             mesh |-> mesh, boundary_conditions |-> boundary_conditions,
             y_shape |-> IF mesh.none THEN <<diff_eq.of.y_dimension>>
                         ELSE mesh.of.shape \o <<diff_eq.of.y_dimension>>,
             y_constraint_functions |-> None,
             d_y_constraint_functions |-> None,
             fipy_vars |-> None])

(* BoundaryValueProblem.__init__; the derivative constraint functions and   *)
(* the FiPy variables it derives are modelled by their presence.            *)
BoundaryValueProblem(diff_eq, mesh, boundary_conditions, empty) ==
    IF diff_eq.none THEN Raise
    ELSE IF diff_eq.of.x_dimension # 0
    THEN (IF mesh.none THEN Raise
          ELSE IF Len(mesh.of.shape) # diff_eq.of.x_dimension THEN Raise
          ELSE IF boundary_conditions.none THEN Raise
          ELSE IF Len(boundary_conditions.of) # diff_eq.of.x_dimension THEN Raise
          ELSE IF \E i \in 1..diff_eq.of.x_dimension :
                    Len(boundary_conditions.of[i]) # 2
          THEN Raise
          ELSE Ok([class |-> "BoundaryValueProblem", diff_eq |-> diff_eq.of,
                   mesh |-> mesh, boundary_conditions |-> boundary_conditions,
                   y_shape |-> mesh.of.shape \o <<diff_eq.of.y_dimension>>,
                   y_constraint_functions |->
                       Some(_create_y_boundary_constraint_functions(
                                diff_eq.of.x_dimension, diff_eq.of.y_dimension,
                                mesh.of, boundary_conditions.of,
                                [e \in Idx(mesh.of.shape, diff_eq.of.y_dimension) |->
                                    empty])),
                   d_y_constraint_functions |-> Some("functions"),
                   fipy_vars |-> Some("variables")]))
    ELSE Ok([class |-> "BoundaryValueProblem", diff_eq |-> diff_eq.of,
             mesh |-> None, boundary_conditions |-> None,
             y_shape |-> <<diff_eq.of.y_dimension>>,
             y_constraint_functions |-> None,
             d_y_constraint_functions |-> None,
             fipy_vars |-> None])

(* InitialValueProblem.__init__                                             *)
InitialValueProblem(bvp, t_interval, initial_condition) ==
    IF bvp.none THEN Raise
    ELSE IF Len(t_interval) # 2 THEN Raise
    ELSE IF ~RLe(t_interval[1], t_interval[2]) THEN Raise
    ELSE IF initial_condition.none THEN Raise
    ELSE Ok([class |-> "InitialValueProblem", bvp |-> bvp.of,
             t_interval |-> t_interval,
             initial_condition |-> initial_condition.of])

MaxAxes == 2  \* spatial dimensions of the problems, axes of their meshes

(* A mesh of 3 vertices along every axis, from 0 in steps of 1.             *)
ProblemMesh(rank) ==
    [shape |-> Repeat(3, rank), x_offset |-> Repeat(R(0), rank),
     d_x |-> Repeat(R(1), rank)]

BoundaryConditionInputs ==
    {BoundaryCondition(FALSE, [kind |-> "constant", value |-> 1])}
    \cup {BoundaryCondition(TRUE, [kind |-> kind, value |-> 1]) :
              kind \in {"constant", "first component", "away from origin", "nan"}}

(* np.empty: an array of whatever the memory holds.                         *)
UninitialisedEntries == {NaN, R(7)}

(* Calls with and without each argument and with boundary conditions that   *)
(* lack a pair or the upper condition of an axis; and calls for a problem   *)
(* of two spatial dimensions with any of the boundary conditions at each    *)
(* of the four boundaries.                                                  *)
BoundaryValueProblemInputs ==
    [class : {"BoundaryValueProblem"},
     diff_eq : {None} \cup {Some([x_dimension |-> x, y_dimension |-> y]) :
                              x \in 0..MaxAxes, y \in 1..2},
     mesh : {None} \cup {Some(ProblemMesh(rank)) : rank \in 1..MaxAxes},
     boundary_conditions :
         {None} \cup
         {Some([k \in 1..axes |->
                  IF k = i
                  THEN <<BoundaryCondition(TRUE, [kind |-> "constant", value |-> 1])>>
                  ELSE <<BoundaryCondition(TRUE, [kind |-> "constant", value |-> 1]),
                         BoundaryCondition(FALSE, [kind |-> "constant", value |-> 1])>>]) :
              axes \in 0..MaxAxes, i \in 0..MaxAxes}]
    \cup
    [class : {"BoundaryValueProblem"},
     diff_eq : {Some([x_dimension |-> 2, y_dimension |-> y]) : y \in 1..2},
     mesh : {Some(ProblemMesh(2))},
     boundary_conditions :
         {Some(<<<<r_lower, r_upper>>, <<c_lower, c_upper>>>>) :
              r_lower \in BoundaryConditionInputs, r_upper \in BoundaryConditionInputs,
              c_lower \in BoundaryConditionInputs, c_upper \in BoundaryConditionInputs}]

InitialValueProblemInputs ==
    [class : {"InitialValueProblem"},
     bvp : {None, Some("bvp")},
     t_interval : UNION {[1..k -> {R(0), R(1)}] : k \in 1..3},
     initial_condition : {None, Some("initial_condition")}]

ConstructBoundaryValueProblem ==
    /\ Constructing("BoundaryValueProblem")
    /\ \E empty \in UninitialisedEntries :
           constructed' = BoundaryValueProblem(constructor.diff_eq, constructor.mesh,
                                               constructor.boundary_conditions, empty)
    /\ UNCHANGED <<constructor, solveVars, ndVars, pVars>>

ConstructInitialValueProblem ==
    /\ Constructing("InitialValueProblem")
    /\ constructed' = InitialValueProblem(constructor.bvp, constructor.t_interval,
                                          constructor.initial_condition)
    /\ UNCHANGED <<constructor, solveVars, ndVars, pVars>>

(* C17 as stated: constructing an InitialValueProblem fails unless its time *)
(* interval has exactly two bounds with t1 strictly greater than t0, and    *)
(* unless the problem and the initial condition are present.                *)
C17_EmptyTimeIntervalRejected ==
    (Constructed("InitialValueProblem") /\ ~constructed.raised) =>
        /\ Len(constructor.t_interval) = 2
        /\ RLt(constructor.t_interval[1], constructor.t_interval[2])
        /\ ~constructor.bvp.none
        /\ ~constructor.initial_condition.none

(* The checks the constructor makes: two bounds with t0 <= t1, a problem    *)
(* and an initial condition.                                                *)
TimeIntervalChecksOfTheConstructor ==
    (Constructed("InitialValueProblem") /\ ~constructed.raised) =>
        /\ Len(constructor.t_interval) = 2
        /\ RLe(constructor.t_interval[1], constructor.t_interval[2])
        /\ ~constructor.bvp.none
        /\ ~constructor.initial_condition.none

(* C18: a boundary value problem around a PDE is constructed only with a    *)
(* mesh of rank x_dimension and a (lower, upper) pair of boundary           *)
(* conditions for every axis; around an ODE it stores no mesh, no boundary  *)
(* conditions and no constraint functions, and its y shape is               *)
(* (y_dimension,).                                                          *)
C18_BoundaryValueProblemValidated ==
    (Constructed("BoundaryValueProblem") /\ ~constructed.raised) =>
        /\ ~constructor.diff_eq.none
        /\ IF constructor.diff_eq.of.x_dimension > 0
           THEN /\ ~constructor.mesh.none
                /\ Len(constructor.mesh.of.shape) = constructor.diff_eq.of.x_dimension
                /\ ~constructor.boundary_conditions.none
                /\ Len(constructor.boundary_conditions.of)
                       = constructor.diff_eq.of.x_dimension
                /\ \A i \in DOMAIN constructor.boundary_conditions.of :
                       Len(constructor.boundary_conditions.of[i]) = 2
           ELSE /\ constructed.value.mesh.none
                /\ constructed.value.boundary_conditions.none
                /\ constructed.value.y_constraint_functions.none
                /\ constructed.value.d_y_constraint_functions.none
                /\ constructed.value.y_shape = <<constructor.diff_eq.of.y_dimension>>

(* A problem around an ODE was constructed from a call that passed a mesh   *)
(* and boundary conditions.                                                 *)
C18_Witness ==
    /\ Constructed("BoundaryValueProblem")
    /\ ~constructed.raised
    /\ constructor.diff_eq = Some([x_dimension |-> 0, y_dimension |-> 2])
    /\ ~constructor.mesh.none
    /\ ~constructor.boundary_conditions.none
    /\ constructed.value.mesh.none

------------------------------------------------------------------------------

(* The y-constraint mask of a boundary value problem.                       *)

ProblemConstructed ==
    /\ Constructed("BoundaryValueProblem")
    /\ ~constructed.raised
    /\ constructor.diff_eq.of.x_dimension > 0

(* The coordinates of vertex v along the axes other than axis.              *)
BoundaryPoint(mesh, v, axis) ==
    [k \in 1..(Len(v) - 1) |->
        RAdd(Drop(mesh.x_offset, axis)[k],
             RMul(R(Drop(v, axis)[k] - 1), Drop(mesh.d_x, axis)[k]))]

(* Vertex v lies on the lower (side 1) or upper (side 2) boundary of axis,  *)
(* and the boundary condition there has a y-condition that gives a value    *)
(* other than NaN for component c at v.                                     *)
FaceConstrains(axis, side, v, c) ==
    LET bc == constructor.boundary_conditions.of[axis][side]
        mesh == constructor.mesh.of
    IN  /\ v[axis] = (IF side = 1 THEN 1 ELSE mesh.shape[axis])
        /\ bc.has_y_condition
        /\ ~isnan(condition_function(
                      bc.y_condition, BoundaryPoint(mesh, v, axis),
                      constructor.diff_eq.of.y_dimension)[c])

(* Vertex v lies on the boundary of the axis and side, whose boundary       *)
(* condition has a y-condition.                                             *)
FaceEvaluatedAt(axis, side, v) ==
    /\ v[axis] = (IF side = 1 THEN 1 ELSE constructor.mesh.of.shape[axis])
    /\ constructor.boundary_conditions.of[axis][side].has_y_condition

(* Applying the constraint functions to an array of nines leaves every      *)
(* entry outside the mask as it was.                                        *)
OnlyMaskedEntriesChange ==
    LET functions == constructed.value.y_constraint_functions.of
        shape == constructor.mesh.of.shape
        y == [v \in Vertices(shape) |-> R(9)]
    IN  \A c \in 1..constructor.diff_eq.of.y_dimension :
            \A v \in Vertices(shape) :
                ~functions.mask[Append(v, c)] =>
                    y_constraint_function(functions, c, y)[v] = y[v]

(* C26 as stated: the mask entry of vertex v and component c is set exactly *)
(* when v lies on some boundary face whose boundary condition has a         *)
(* y-condition giving a value other than NaN for c at v, vertices shared by *)
(* several faces included; no interior vertex is constrained, and applying  *)
(* the constraint changes masked entries only.                              *)
C26_MaskIsSetWhereSomeFaceConstrains ==
    ProblemConstructed =>
        /\ \A v \in Vertices(constructor.mesh.of.shape) :
               \A c \in 1..constructor.diff_eq.of.y_dimension :
                   constructed.value.y_constraint_functions.of.mask[Append(v, c)]
                       = (\E axis \in 1..constructor.diff_eq.of.x_dimension :
                              \E side \in 1..2 : FaceConstrains(axis, side, v, c))
        /\ OnlyMaskedEntriesChange

(* What the construction gives: the mask entry is set exactly when the last *)
(* boundary evaluated at v (axes in order, lower before upper) gives a      *)
(* value other than NaN, so that no interior vertex is constrained; and     *)
(* applying the constraint changes masked entries only.                     *)
MaskFollowsTheLastFaceEvaluated ==
    ProblemConstructed =>
        /\ \A v \in Vertices(constructor.mesh.of.shape) :
               \A c \in 1..constructor.diff_eq.of.y_dimension :
                   constructed.value.y_constraint_functions.of.mask[Append(v, c)]
                       = (\E axis \in 1..constructor.diff_eq.of.x_dimension :
                              \E side \in 1..2 :
                                  /\ FaceConstrains(axis, side, v, c)
                                  /\ \A later \in 1..constructor.diff_eq.of.x_dimension :
                                         \A s \in 1..2 :
                                             (/\ 2 * later + s > 2 * axis + side
                                              /\ FaceEvaluatedAt(later, s, v))
                                                 => FaceConstrains(later, s, v, c))
        /\ OnlyMaskedEntriesChange

------------------------------------------------------------------------------
(* The Lorenz equations.                                                    *)

(* LorenzEquation.symbolic_equation_system, its right-hand sides evaluated  *)
(* at the state y = (c, h, v).                                              *)
LorenzEquation_rhs(sigma, rho, beta, y) ==
    LET c == y[1]
        h == y[2]
        v == y[3]
    IN  <<RMul(sigma, RSub(h, c)),
          RSub(RMul(c, RSub(rho, v)), h),
          RSub(RMul(c, h), RMul(beta, v))>>

(* LorenzDiffEq.d_y: d_y_arr comes from np.empty, whose entries hold        *)
(* whatever the memory held (empty); index 1 is assigned twice and index 2  *)
(* never.                                                                   *)
LorenzDiffEq_d_y(sigma, rho, beta, y, empty) ==
    LET c == y[1]
        h == y[2]
        v == y[3]
        d_y_arr_0 == [empty EXCEPT ![1] = RMul(sigma, RSub(h, c))]
        d_y_arr_1 == [d_y_arr_0 EXCEPT ![2] = RSub(RMul(c, RSub(rho, v)), h)]
        d_y_arr_2 == [d_y_arr_1 EXCEPT ![2] = RSub(RMul(c, h), RMul(beta, v))]
    IN  d_y_arr_2

MaxLorenz == 2  \* coefficients range over 1..MaxLorenz, states over 0..MaxLorenz

(* The values an entry of an uninitialised array may hold.                  *)
UninitialisedValues == {R(0), R(1)}

LorenzInputs ==
    [class : {"LorenzEquation", "LorenzDiffEq"},
     sigma : {R(k) : k \in 1..MaxLorenz},
     rho : {R(k) : k \in 1..MaxLorenz},
     beta : {R(k) : k \in 1..MaxLorenz},
     y : [1..3 -> {R(k) : k \in 0..MaxLorenz}]]

EvaluateLorenzEquation ==
    /\ Constructing("LorenzEquation")
    /\ constructed' = Ok(LorenzEquation_rhs(constructor.sigma, constructor.rho,
                                            constructor.beta, constructor.y))
    /\ UNCHANGED <<constructor, solveVars, ndVars, pVars>>

EvaluateLorenzDiffEq ==
    /\ Constructing("LorenzDiffEq")
    /\ \E empty \in [1..3 -> UninitialisedValues] :
           constructed' = Ok(LorenzDiffEq_d_y(constructor.sigma, constructor.rho,
                                              constructor.beta, constructor.y, empty))
    /\ UNCHANGED <<constructor, solveVars, ndVars, pVars>>

(* C19 as stated: every Lorenz definition evaluates, for the state          *)
(* (c, h, v), c' = sigma*(h - c), h' = c*(rho - v) - h and                  *)
(* v' = c*h - beta*v, each component holding its own expression.            *)
C19_LorenzRightHandSideIsCanonical ==
    (Constructed("LorenzEquation") \/ Constructed("LorenzDiffEq")) =>
        LET c == constructor.y[1]
            h == constructor.y[2]
            v == constructor.y[3]
        IN  /\ constructed.value[1] = RMul(constructor.sigma, RSub(h, c))
            /\ constructed.value[2] = RSub(RMul(c, RSub(constructor.rho, v)), h)
            /\ constructed.value[3] = RSub(RMul(c, h), RMul(constructor.beta, v))

(* The symbolic definition alone evaluates the canonical right-hand side.   *)
SymbolicLorenzIsCanonical ==
    Constructed("LorenzEquation") =>
        LET c == constructor.y[1]
            h == constructor.y[2]
            v == constructor.y[3]
        IN  constructed.value =
                <<RMul(constructor.sigma, RSub(h, c)),
                  RSub(RMul(c, RSub(constructor.rho, v)), h),
                  RSub(RMul(c, h), RMul(constructor.beta, v))>>

------------------------------------------------------------------------------

(* StatefulRegressionOperator.train: the generation of the training data.   *)
(* The problem is an ODE, so that a state y is a sequence of y_dimension    *)
(* values and the oracle's solution of a sub-IVP is a function of the       *)
(* state the sub-IVP starts from.                                           *)

(* oracle.solve(sub_ivp).discrete_y()[-1, ...] for the sub-IVP that starts  *)
(* from y.                                                                  *)
oracle_solve(y) == [k \in DOMAIN y |-> RAdd(RMul(R(2), y[k]), R(1))]

(* The noise added to y_i at step i (counted from 0):                       *)
(* np.random.normal(0, interpolated_noise_sd, y_i.shape), as the standard   *)
(* deviation times the standard normal draws z.                             *)
train_noise(y_step, i, t_points, noise_sd, relative_noise, z) ==
    LET last_sub_ivp_start_time_point == Len(t_points) - 2
        interpolated_noise_sd ==
            IF Len(t_points) > 2
            THEN RDiv(RAdd(RMul(noise_sd[1], R(last_sub_ivp_start_time_point - i)),
                           RMul(noise_sd[2], R(i))),
                      R(last_sub_ivp_start_time_point))
            ELSE noise_sd[1]
    IN  [k \in DOMAIN y_step |->
            RMul(IF relative_noise THEN RAbs(RMul(y_step[k], interpolated_noise_sd))
                 ELSE interpolated_noise_sd,
                 z[k])]

(* A variant of the content of the array y_0 that is never written to.     *)
y_0_of_epoch_unchanged(epoch, y_0, t_points, noise_sd, relative_noise, z) ==
    y_0

(* The content of the array y_0 at the head of an epoch (counted from 1).   *)
(* y_i = y_0 binds y_i to the array y_0 itself, and y_i += noise at step 0  *)
(* adds the noise to that array in place.                                   *)
RECURSIVE y_0_of_epoch(_, _, _, _, _, _)
y_0_of_epoch(epoch, y_0, t_points, noise_sd, relative_noise, z) ==
    IF epoch = 1 \/ Len(t_points) < 2 THEN y_0
    ELSE LET y_step == y_0_of_epoch(epoch - 1, y_0, t_points, noise_sd,
                                 relative_noise, z)
             noise == train_noise(y_step, 0, t_points, noise_sd, relative_noise,
                                  z[epoch - 1][1])
         IN  [k \in DOMAIN y_step |-> RAdd(y_step[k], noise[k])]

(* The state written to all_x at step i (counted from 0) of an epoch: y_i   *)
(* after the noise of the step is added.                                    *)
RECURSIVE sub_ivp_y_0(_, _, _, _, _, _, _)
sub_ivp_y_0(epoch, i, y_0, t_points, noise_sd, relative_noise, z) ==
    LET y_step == IF i = 0
               THEN y_0_of_epoch(epoch, y_0, t_points, noise_sd, relative_noise, z)
               ELSE oracle_solve(sub_ivp_y_0(epoch, i - 1, y_0, t_points,
                                             noise_sd, relative_noise, z))
        noise == train_noise(y_step, i, t_points, noise_sd, relative_noise,
                             z[epoch][i + 1])
    IN  [k \in DOMAIN y_step |-> RAdd(y_step[k], noise[k])]

(* train up to the fitting of the model: the states in all_x and all_y by   *)
(* epoch and step, and the content of the initial condition's array         *)
(* afterwards.  discrete_y_0 returns either the initial condition's array   *)
(* or a copy of it.                                                         *)
train(y_0, t_interval, d_t, iterations, noise_sd, relative_noise, z, copied) ==
    IF iterations <= 0 THEN Raise
    ELSE IF RLt(noise_sd[1], Zero) \/ RLt(noise_sd[2], Zero) THEN Raise
    ELSE
      LET t_points == _discretise_time_domain(t_interval, d_t)
          steps == Len(t_points) - 1
          all_x == [epoch \in 1..iterations |->
                       [s \in 1..steps |->
                           sub_ivp_y_0(epoch, s - 1, y_0, t_points, noise_sd,
                                       relative_noise, z)]]
      IN  Ok([all_x |-> all_x,
              all_y |-> [epoch \in 1..iterations |->
                            [s \in 1..steps |-> oracle_solve(all_x[epoch][s])]],
              initial_condition |->
                  IF copied THEN y_0
                  ELSE y_0_of_epoch(iterations + 1, y_0, t_points, noise_sd,
                                    relative_noise, z)])

MaxTrainIterations == 2   \* data generation iterations of train
MaxTrainSteps == 2        \* sub-IVPs of an iteration

TrainInputs ==
    [class : {"StatefulRegressionOperator.train"},
     y_0 : {<<R(0)>>, <<R(2)>>},
     t_interval : {<<R(0), R(k)>> : k \in 1..MaxTrainSteps},
     d_t : {R(1)},
     iterations : 0..MaxTrainIterations,
     noise_sd : {<<R(0), R(0)>>, <<R(1), R(1)>>, <<R(1), R(0)>>, <<R(-1), R(1)>>},
     relative_noise : BOOLEAN]

(* Draws of a standard normal variable for every epoch, step and component. *)
StandardNormalDraws == {R(-1), R(1)}

Train ==
    /\ Constructing("StatefulRegressionOperator.train")
    /\ \E z \in [1..constructor.iterations ->
                    [1..MaxTrainSteps ->
                        [DOMAIN constructor.y_0 -> StandardNormalDraws]]] :
           \E copied \in BOOLEAN :
               constructed' =
                   (LET result == train(constructor.y_0, constructor.t_interval,
                                        constructor.d_t, constructor.iterations,
                                        constructor.noise_sd,
                                        constructor.relative_noise, z, copied)
                    IN  IF result.raised THEN Raise
                        ELSE Ok(result.value @@ [z |-> z]))
    /\ UNCHANGED <<constructor, solveVars, ndVars, pVars>>

Trained ==
    /\ Constructed("StatefulRegressionOperator.train")
    /\ ~constructed.raised

(* y_0 perturbed by the noise of the first step of the epoch alone.         *)
OriginalPerturbedIn(epoch) ==
    LET t_points == _discretise_time_domain(constructor.t_interval, constructor.d_t)
        noise == train_noise(constructor.y_0, 0, t_points, constructor.noise_sd,
                             constructor.relative_noise, constructed.value.z[epoch][1])
    IN  [k \in DOMAIN constructor.y_0 |-> RAdd(constructor.y_0[k], noise[k])]

(* C27 as stated: every data generation iteration starts its chain of       *)
(* sub-IVPs from the original discrete initial condition y_0 perturbed by   *)
(* that iteration's own noise only, and the values of the initial condition *)
(* are unchanged when train returns.                                        *)
C27_EpochsStartFromOriginalInitialCondition ==
    Trained =>
        /\ \A epoch \in 1..constructor.iterations :
               constructed.value.all_x[epoch][1] = OriginalPerturbedIn(epoch)
        /\ constructed.value.initial_condition = constructor.y_0

(* What train does hold to: the first iteration starts from the original    *)
(* y_0 perturbed by its own noise, and every state of all_y is the oracle's *)
(* solution from the state of all_x.                                        *)
FirstEpochStartsFromOriginalInitialCondition ==
    Trained =>
        /\ constructed.value.all_x[1][1] = OriginalPerturbedIn(1)
        /\ \A epoch \in 1..constructor.iterations :
               \A s \in DOMAIN constructed.value.all_x[epoch] :
                   constructed.value.all_y[epoch][s]
                       = oracle_solve(constructed.value.all_x[epoch][s])

------------------------------------------------------------------------------

(* StatelessMLOperator.solve: the prediction of the whole solution, in one  *)
(* batch or one time point at a time.  A two dimensional NumPy array is a   *)
(* sequence of rows, each row a sequence of rationals.                      *)

(* mesh.shape(vertex_oriented): the vertices, or the cells between them.    *)
mesh_shape(mesh, vertex_oriented) ==
    IF vertex_oriented THEN mesh.vertices_shape
    ELSE [a \in DOMAIN mesh.vertices_shape |-> mesh.vertices_shape[a] - 1]

(* mesh.x(index, vertex_oriented): the coordinates of a vertex or of the    *)
(* centre of a cell; the index is counted from 1.                           *)
mesh_x(mesh, index, vertex_oriented) ==
    [a \in DOMAIN index |->
        RAdd(RAdd(mesh.x_min[a], RMul(mesh.d_x[a], R(index[a] - 1))),
             IF vertex_oriented THEN Zero ELSE RDiv(mesh.d_x[a], R(2)))]

RECURSIVE np_prod(_)
np_prod(shape) ==
    IF shape = <<>> THEN 1
    ELSE np_prod(SubSeq(shape, 1, Len(shape) - 1)) * shape[Len(shape)]

(* The offset of an index (counted from 1) in the C order of an array of    *)
(* the shape.                                                               *)
RECURSIVE ravel_multi_index(_, _)
ravel_multi_index(index, shape) ==
    IF shape = <<>> THEN 0
    ELSE ravel_multi_index(SubSeq(index, 1, Len(index) - 1),
                           SubSeq(shape, 1, Len(shape) - 1)) * shape[Len(shape)]
         + (index[Len(index)] - 1)

(* np.ndindex(shape): the indices of the shape in C order.                  *)
ndindex(shape) ==
    [p \in 1..np_prod(shape) |->
        CHOOSE index \in Vertices(shape) : ravel_multi_index(index, shape) = p - 1]

(* np.tile(x, (reps, 1)): the rows of x, reps times over.                   *)
np_tile(x, reps) ==
    [r \in 1..(Len(x) * reps) |-> x[((r - 1) % Len(x)) + 1]]

(* A variant of np.repeat that cycles through the elements as np.tile does. *)
np_repeat_cycling(a, repeats) ==
    [r \in 1..(Len(a) * repeats) |-> a[((r - 1) % Len(a)) + 1]]

(* np.repeat(a, repeats): every element repeats times in a row.             *)
np_repeat(a, repeats) ==
    [r \in 1..(Len(a) * repeats) |-> a[((r - 1) \div repeats) + 1]]

(* x.reshape(shape) of a two dimensional array: the entries in C order,     *)
(* indexed by the indices of the shape.                                     *)
reshape(x, shape) ==
    [index \in Vertices(shape) |->
        LET offset == ravel_multi_index(index, shape)
            width == Len(x[1])
        IN  x[(offset \div width) + 1][(offset % width) + 1]]

(* MLOperator._create_input_placeholder: a row per mesh point with its      *)
(* coordinates and an uninitialised column for t; a single uninitialised    *)
(* entry for an ordinary differential equation.                             *)
_create_input_placeholder(cp, vertex_oriented, empty) ==
    IF cp.x_dimension # 0
    THEN LET shape == mesh_shape(cp.mesh, vertex_oriented)
             indices == ndindex(shape)
         IN  [row_ind \in 1..np_prod(shape) |->
                 Append(mesh_x(cp.mesh, indices[row_ind], vertex_oriented), empty)]
    ELSE <<<<empty>>>>

(* MLOperator._create_input_batch.                                          *)
_create_input_batch(cp, vertex_oriented, t_points, empty) ==
    LET input_placeholder == _create_input_placeholder(cp, vertex_oriented, empty)
        n_mesh_points == Len(input_placeholder)
        x == np_tile(input_placeholder, Len(t_points))
        t == np_repeat(t_points, n_mesh_points)
    IN  [r \in DOMAIN x |-> [x[r] EXCEPT ![cp.x_dimension + 1] = t[r]]]

(* The prediction of a model for one input row: a function of the row that  *)
(* tells the rows and the components apart.                                 *)
RECURSIVE predict_row(_, _)
predict_row(row, component) ==
    IF row = <<>> THEN R(component)
    ELSE RAdd(RMul(R(5), predict_row(SubSeq(row, 1, Len(row) - 1), component)),
              row[Len(row)])

(* model.predict(x): every row predicted on its own.                        *)
predict(x, y_dimension) ==
    [r \in DOMAIN x |-> [c \in 1..y_dimension |-> predict_row(x[r], c)]]

(* cp.y_shape(vertex_oriented).                                             *)
y_shape(cp, vertex_oriented) ==
    (IF cp.x_dimension # 0 THEN mesh_shape(cp.mesh, vertex_oriented) ELSE <<>>)
        \o <<cp.y_dimension>>

StatelessMLOperator_solve(cp, t_interval, d_t, vertex_oriented, batch_mode, model, empty) ==
    IF ~model THEN Raise
    ELSE
      LET t_points == Rest(_discretise_time_domain(t_interval, d_t))
          all_y_shape == <<Len(t_points)>> \o y_shape(cp, vertex_oriented)
          y == IF batch_mode
               THEN LET x_batch == _create_input_batch(cp, vertex_oriented, t_points, empty)
                        y_hat_batch == predict(x_batch, cp.y_dimension)
                    IN  reshape(y_hat_batch, all_y_shape)
               ELSE LET placeholder == _create_input_placeholder(cp, vertex_oriented, empty)
                        y_hat(i) ==
                            predict([r \in DOMAIN placeholder |->
                                        [placeholder[r] EXCEPT ![Len(placeholder[r])] =
                                            t_points[i]]],
                                    cp.y_dimension)
                    IN  [index \in Vertices(all_y_shape) |->
                            reshape(y_hat(index[1]), y_shape(cp, vertex_oriented))
                                [Rest(index)]]
      IN  Ok([t_coordinates |-> t_points, discrete_y |-> y, d_t |-> d_t])

(* The constrained problems the stateless operators solve: an ordinary      *)
(* differential equation and partial differential equations over one and    *)
(* two dimensional meshes.                                                  *)
StatelessProblems ==
    {[x_dimension |-> 0, y_dimension |-> d, mesh |-> None] : d \in 1..2}
    \cup {[x_dimension |-> 1, y_dimension |-> d,
           mesh |-> Mesh(<<3>>, <<R(1)>>, <<R(0)>>, CARTESIAN)] : d \in 1..2}
    \cup {[x_dimension |-> 2, y_dimension |-> d,
           mesh |-> Mesh(<<2, 3>>, <<R(1), Rat(1, 2)>>, <<R(0), R(1)>>, CARTESIAN)] :
              d \in 1..2}

StatelessSolveInputs ==
    [class : {"StatelessMLOperator.solve"},
     cp : StatelessProblems,
     t_interval : TemporalDomainIntervals,
     d_t : {Rat(1, 2), R(1)},
     vertex_oriented : BOOLEAN,
     batch_mode : BOOLEAN,
     model : BOOLEAN]

SolveStateless ==
    /\ Constructing("StatelessMLOperator.solve")
    /\ \E empty \in UninitialisedEntries :
           constructed' = StatelessMLOperator_solve(
                              constructor.cp, constructor.t_interval, constructor.d_t,
                              constructor.vertex_oriented, constructor.batch_mode,
                              constructor.model, empty)
    /\ UNCHANGED <<constructor, solveVars, ndVars, pVars>>

StatelessSolved ==
    /\ Constructed("StatelessMLOperator.solve")
    /\ ~constructed.raised

(* The solution of the same problem by the same operator in the other       *)
(* batch mode.                                                              *)
SolutionInOtherBatchMode(empty) ==
    StatelessMLOperator_solve(constructor.cp, constructor.t_interval, constructor.d_t,
                              constructor.vertex_oriented, ~constructor.batch_mode,
                              constructor.model, empty).value

(* The model's prediction for time step k and the mesh point v.             *)
PredictionAt(k, v) ==
    LET coordinates ==
            IF constructor.cp.x_dimension = 0 THEN <<>>
            ELSE mesh_x(constructor.cp.mesh, v, constructor.vertex_oriented)
    IN  [c \in 1..constructor.cp.y_dimension |->
            predict_row(Append(coordinates, constructed.value.t_coordinates[k]), c)]

(* C28: solve with batch_mode = True and with batch_mode = False return     *)
(* the same time coordinates and the same discrete_y, and the entry of      *)
(* discrete_y at time step k, mesh point v and component c is the model's   *)
(* prediction for the input row (coordinates of v, t_k).                    *)
C28_BatchModesAgree ==
    StatelessSolved =>
        /\ \A empty \in UninitialisedEntries :
               constructed.value = SolutionInOtherBatchMode(empty)
        /\ DOMAIN constructed.value.discrete_y =
               Vertices(<<Len(constructed.value.t_coordinates)>>
                            \o y_shape(constructor.cp, constructor.vertex_oriented))
        /\ \A index \in DOMAIN constructed.value.discrete_y :
               constructed.value.discrete_y[index] =
                   PredictionAt(index[1], SubSeq(index, 2, Len(index) - 1))
                       [index[Len(index)]]

C28_Witness ==
    /\ StatelessSolved
    /\ constructor.batch_mode
    /\ constructor.vertex_oriented
    /\ constructor.cp.x_dimension = 2
    /\ constructor.cp.y_dimension = 2
    /\ Len(constructed.value.t_coordinates) = 3
    /\ constructed.value.discrete_y[<<1, 2, 3, 2>>]
           # constructed.value.discrete_y[<<3, 1, 3, 2>>]
    /\ constructed.value.discrete_y[<<2, 1, 2, 1>>]
           # constructed.value.discrete_y[<<2, 1, 1, 1>>]

------------------------------------------------------------------------------

(* The symbol maps of FDMOperator and PINNOperator.  A lambda of a map is a *)
(* record of what it computes (of), the axes it differentiates along and    *)
(* the component of y it reads: the default argument _i, bound when the     *)
(* lambda is made, or the variable i of _create_symbol_map, read when the   *)
(* lambda is called.                                                        *)
Lambda(of, _i, axes, reads_i) ==
    [of |-> of, _i |-> _i, axes |-> axes, reads_i |-> reads_i]

(* The assignments symbol_map[array[index]] = lambda of one loop nest over  *)
(* the indices of the shape, in the order the loops make them, each with    *)
(* the value the loop variable i has when it is made.                       *)
loop_assignments(array, shape, of, reads_i) ==
    IF \E a \in DOMAIN shape : shape[a] < 1 THEN <<>>
    ELSE LET indices == ndindex(shape)
         IN  [p \in 1..np_prod(shape) |->
                 LET index == [a \in DOMAIN shape |-> indices[p][a] - 1]
                 IN  [i |-> index[1],
                      symbol |-> Symbol(array, index),
                      function |-> Lambda(of, index[1],
                                          SubSeq(index, 2, Len(index)), reads_i)]]

(* The dictionary and the variable i that a sequence of assignments leaves  *)
(* behind: the last assignment to a symbol is the one that stays.           *)
symbol_map_after(assignments) ==
    [symbol_map |->
         [symbol \in {assignments[p].symbol : p \in DOMAIN assignments} |->
             LET last == CHOOSE p \in DOMAIN assignments :
                             /\ assignments[p].symbol = symbol
                             /\ \A q \in DOMAIN assignments :
                                    assignments[q].symbol = symbol => q <= p
             IN  assignments[last].function],
     i |-> IF assignments = <<>> THEN -1 ELSE assignments[Len(assignments)].i]

(* The loops of both _create_symbol_map methods; derivatives_read_i tells   *)
(* whether the lambdas of the derivative symbols read component i or _i.    *)
symbol_map_assignments(x_dimension, y_dimension, derivatives_read_i) ==
    loop_assignments("y", <<y_dimension>>, "y", FALSE)
    \o (IF x_dimension # 0
        THEN loop_assignments("d_y_over_d_x", <<y_dimension, x_dimension>>,
                              "derivative", derivatives_read_i)
             \o loop_assignments("d_y_over_d_x_x",
                                 <<y_dimension, x_dimension, x_dimension>>,
                                 "second_derivative", derivatives_read_i)
             \o loop_assignments("y_gradient", <<y_dimension>>,
                                 "jacobian", derivatives_read_i)
             \o loop_assignments("y_laplacian", <<y_dimension>>,
                                 "laplacian", derivatives_read_i)
        ELSE <<>>)

FDMOperator_create_symbol_map(x_dimension, y_dimension) ==
    symbol_map_after(symbol_map_assignments(x_dimension, y_dimension, FALSE))

PINNOperator_create_symbol_map(x_dimension, y_dimension) ==
    symbol_map_after(symbol_map_assignments(x_dimension, y_dimension, TRUE))

MaxComponents == 3  \* y_dimension of the problems of the symbol maps

SymbolMapInputs ==
    [class : {"FDMOperator._create_symbol_map", "PINNOperator._create_symbol_map"},
     x_dimension : 0..MaxAxes,
     y_dimension : 1..MaxComponents]

CreateSymbolMap ==
    /\ \/ Constructing("FDMOperator._create_symbol_map")
       \/ Constructing("PINNOperator._create_symbol_map")
    /\ constructed' =
           Ok(IF constructor.class = "FDMOperator._create_symbol_map"
              THEN FDMOperator_create_symbol_map(constructor.x_dimension,
                                                 constructor.y_dimension)
              ELSE PINNOperator_create_symbol_map(constructor.x_dimension,
                                                  constructor.y_dimension))
    /\ UNCHANGED <<constructor, solveVars, ndVars, pVars>>

SymbolMapCreated ==
    \/ Constructed("FDMOperator._create_symbol_map")
    \/ Constructed("PINNOperator._create_symbol_map")

(* The component of y that the function bound to the symbol reads when it   *)
(* is called after _create_symbol_map has returned.                         *)
ComponentRead(symbol) ==
    LET function == constructed.value.symbol_map[symbol]
    IN  IF function.reads_i THEN constructed.value.i ELSE function._i

DerivativeSymbols ==
    {symbol \in DOMAIN constructed.value.symbol_map : symbol.array # "y"}

(* C29 as stated: in both symbol maps the function bound to the symbol of   *)
(* dy_i/dx_j, of d2y_i/dx_j dx_k, of the gradient of y_i and of the         *)
(* Laplacian of y_i differentiates component i of y, the component named    *)
(* by the symbol, along the axes named by the symbol, whatever y_dimension  *)
(* is.                                                                      *)
C29_SymbolsBoundToTheirComponent ==
    SymbolMapCreated =>
        \A symbol \in DerivativeSymbols :
            /\ ComponentRead(symbol) = symbol.index[1]
            /\ constructed.value.symbol_map[symbol].axes
                   = SubSeq(symbol.index, 2, Len(symbol.index))

(* What the maps do hold to: the FDM map binds every symbol to its own      *)
(* component; in the PINN map the symbols of y read their own component,    *)
(* every derivative symbol reads the last component of y, and the axes are  *)
(* the ones the symbol names.                                               *)
PINNDerivativesReadLastComponent ==
    SymbolMapCreated =>
        /\ \A symbol \in DOMAIN constructed.value.symbol_map :
               /\ symbol.array = "y" => ComponentRead(symbol) = symbol.index[1]
               /\ constructed.value.symbol_map[symbol].axes
                      = SubSeq(symbol.index, 2, Len(symbol.index))
        /\ \A symbol \in DerivativeSymbols :
               ComponentRead(symbol) =
                   IF constructor.class = "FDMOperator._create_symbol_map"
                   THEN symbol.index[1]
                   ELSE constructor.y_dimension - 1

------------------------------------------------------------------------------
(* The specification of the constructors.                                   *)

ConstructorInputs ==
    DifferentialEquationInputs \cup OperatorInputs \cup NumericalDifferentiatorInputs
    \cup UniformGridInputs \cup BoundaryValueProblemInputs
    \cup InitialValueProblemInputs \cup LorenzInputs \cup TrainInputs
    \cup StatelessSolveInputs \cup SymbolMapInputs

InitConstruct ==
    /\ constructor \in ConstructorInputs
    /\ constructed = Pending
    /\ SolveIdle
    /\ DiffIdle
    /\ PararealIdle

NextConstruct ==
    \/ ConstructDifferentialEquation
    \/ ConstructOperator
    \/ ConstructNumericalDifferentiator
    \/ ConstructUniformGrid
    \/ ConstructBoundaryValueProblem
    \/ ConstructInitialValueProblem
    \/ EvaluateLorenzEquation
    \/ EvaluateLorenzDiffEq
    \/ Train
    \/ SolveStateless
    \/ CreateSymbolMap

SpecConstruct == InitConstruct /\ [][NextConstruct]_vars

====
